---- MODULE Spec2Model ----
(***************************************************************************)
(* DGit commit / storage / restore pipeline.                               *)
(*                                                                         *)
(* Byte strings are sequences of tokens.  A token stands for a run of      *)
(* bytes that the code treats as a unit ("FILE", ":", "NL" for the line    *)
(* feed, a path element, an extension, a decimal digit, a payload byte).   *)
(* Lengths and offsets are counted in tokens on the writing and on the     *)
(* reading side alike.                                                     *)
(***************************************************************************)
EXTENDS Integers, Sequences, FiniteSets, TLC

VARIABLES
    fs,                  \* .dgit/{versions,cache,objects}: file name -> bytes
    commits,             \* .dgit/commits: version -> commit record (v<N>.json)
    HEAD,                \* .dgit/HEAD: the hash it holds, NoHash when absent or empty
    MaxDeltaChainLength, \* CommitManager.MaxDeltaChainLength
    lastCommit,          \* outcome of the latest CreateCommit call
    lastRestore,         \* outcome of the RestoreFilesFromCommit call made since
                         \* the latest CreateCommit call
    staged,              \* what each persisted version was committed from
    faults,              \* number of calls during which a system call failed
    pureIn,              \* arguments of a codec call under test
    pureOut,             \* its results
    committing,          \* the CreateCommit call that has started writing its
                         \* artifact and has not yet returned
    optimizer            \* scheduleBackgroundOptimization goroutines: version ->
                         \* where the goroutine stands

vars == <<fs, commits, HEAD, MaxDeltaChainLength, lastCommit, lastRestore,
          staged, faults, pureIn, pureOut, committing, optimizer>>

(***************************************************************************)
(* Bounds of the model                                                     *)
(***************************************************************************)
MaxVersion == 3
MaxFiles == 2
MaxFaults == 1
MaxChainLimit == 2
MaxConcurrentVersion == 2

(***************************************************************************)
(* Token strings                                                           *)
(***************************************************************************)
\* strings.Index(s[from:], t): least index >= from holding t, 0 when absent
IndexFrom(s, t, from) ==
    LET hits == {i \in from..Len(s) : s[i] = t}
    IN IF hits = {} THEN 0 ELSE CHOOSE i \in hits : \A j \in hits : i <= j

LastIndex(s, t) ==
    LET hits == {i \in 1..Len(s) : s[i] = t}
    IN IF hits = {} THEN 0 ELSE CHOOSE i \in hits : \A j \in hits : i >= j

HasPrefix(s, p) == Len(s) >= Len(p) /\ SubSeq(s, 1, Len(p)) = p

HasSuffix(s, p) == Len(s) >= Len(p) /\ SubSeq(s, Len(s) - Len(p) + 1, Len(s)) = p

\* bytes.Index(s, p): first index where p occurs in s, 0 when absent
IndexOfSeq(s, p) ==
    LET hits == {i \in 1..(Len(s) - Len(p) + 1) : SubSeq(s, i, i + Len(p) - 1) = p}
    IN IF hits = {} THEN 0 ELSE CHOOSE i \in hits : \A j \in hits : i <= j

\* strings.Split(s, sep) for a one-token separator
RECURSIVE Split(_, _)
Split(s, sep) ==
    LET i == IndexFrom(s, sep, 1)
    IN IF i = 0 THEN <<s>>
       ELSE <<SubSeq(s, 1, i - 1)>> \o Split(SubSeq(s, i + 1, Len(s)), sep)

\* filepath.Base: the last element of the path
Base(path) == SubSeq(path, LastIndex(path, "/") + 1, Len(path))

ExtTokens == {".psd", ".PSD", ".ai", ".sketch", ".fig"}

\* filepath.Ext: the suffix of the last element that starts at its final dot
Ext(path) ==
    IF Len(path) > 0 /\ path[Len(path)] \in ExtTokens THEN path[Len(path)] ELSE ""

ToLower(e) == IF e = ".PSD" THEN ".psd" ELSE e

Digits == <<"0", "1", "2", "3", "4", "5", "6", "7", "8", "9">>

DigitToks == {Digits[i] : i \in 1..10}

DigitVal(d) == (CHOOSE i \in 1..10 : Digits[i] = d) - 1

\* strconv.Itoa / %d
RECURSIVE Itoa(_)
Itoa(n) ==
    IF n < 10 THEN <<Digits[n + 1]>>
    ELSE Itoa(n \div 10) \o <<Digits[(n % 10) + 1]>>

RECURSIVE DigitsValue(_)
DigitsValue(s) ==
    IF s = <<>> THEN 0
    ELSE 10 * DigitsValue(SubSeq(s, 1, Len(s) - 1)) + DigitVal(s[Len(s)])

AllDigits(s) == \A i \in 1..Len(s) : s[i] \in DigitToks

\* strconv.ParseInt(s, 10, 64): -1 stands for "err != nil"
ParseInt(s) == IF s # <<>> /\ AllDigits(s) THEN DigitsValue(s) ELSE -1

\* RestoreManager.parseInt64: 0 on any non-digit, 0 for the empty string
parseInt64(s) == IF AllDigits(s) THEN DigitsValue(s) ELSE 0

(***************************************************************************)
(* Compression libraries (pierrec/lz4, klauspost/zstd, kr/binarydist)      *)
(***************************************************************************)
\* an LZ4 frame around the bytes written to the lz4.Writer
LZ4Frame(data) == <<"LZ4[">> \o data \o <<"]LZ4">>

IsLZ4Frame(b) == Len(b) >= 2 /\ b[1] = "LZ4[" /\ b[Len(b)] = "]LZ4"

\* io.ReadAll(lz4.NewReader(f)): the framed bytes
LZ4Read(b) ==
    IF IsLZ4Frame(b) THEN [ok |-> TRUE, bytes |-> SubSeq(b, 2, Len(b) - 1)]
    ELSE [ok |-> FALSE, bytes |-> <<>>]

ZstdFrame(data) == <<"ZSTD[">> \o data \o <<"]ZSTD">>

IsZstdFrame(b) == Len(b) >= 2 /\ b[1] = "ZSTD[" /\ b[Len(b)] = "]ZSTD"

ZstdRead(b) ==
    IF IsZstdFrame(b) THEN [ok |-> TRUE, bytes |-> SubSeq(b, 2, Len(b) - 1)]
    ELSE [ok |-> FALSE, bytes |-> <<>>]

(***************************************************************************)
(* Staged files                                                            *)
(***************************************************************************)
\* staging.StagedFile, with the bytes the file holds when the commit reads it
StagedFile(path, size, data, readable) ==
    [Path |-> path, Size |-> size, data |-> data, readable |-> readable]

Paths(files) == {files[i].Path : i \in 1..Len(files)}

(***************************************************************************)
(* LZ4 container: FILE:<path>:<size>\n<bytes> records                      *)
(***************************************************************************)
\* the header and the content compressWithLZ4 writes for one file
FileRecord(path, content) ==
    <<"FILE", ":">> \o path \o <<":">> \o Itoa(Len(content)) \o <<"NL">> \o content

\* the stream compressWithLZ4 feeds to the LZ4 writer: unreadable files are skipped
RECURSIVE StructuredStream(_)
StructuredStream(files) ==
    IF files = <<>> THEN <<>>
    ELSE (IF files[1].readable THEN FileRecord(files[1].Path, files[1].data) ELSE <<>>)
         \o StructuredStream(Tail(files))

\* originalSize of compressWithLZ4: the bytes actually read
RECURSIVE ReadSize(_)
ReadSize(files) ==
    IF files = <<>> THEN 0
    ELSE (IF files[1].readable THEN Len(files[1].data) ELSE 0) + ReadSize(Tail(files))

Found(bytes) == [ok |-> TRUE, bytes |-> bytes]

NotFound == [ok |-> FALSE, bytes |-> <<>>]

\* createFileFromStructuredData: the bytes written for targetFileName, from pos on
RECURSIVE StructuredLookup(_, _, _)
StructuredLookup(data, targetFileName, pos) ==
    IF pos > Len(data) THEN NotFound
    ELSE LET headerEnd == IndexFrom(data, "NL", pos)
         IN IF headerEnd = 0 THEN NotFound
            ELSE LET headerLine == SubSeq(data, pos, headerEnd - 1)
                     parts == Split(headerLine, ":")
                     fileSize == IF Len(parts) = 3 THEN ParseInt(parts[3]) ELSE -1
                 IN IF \/ ~HasPrefix(headerLine, <<"FILE", ":">>)
                       \/ Len(parts) # 3
                       \/ fileSize <= 0
                    THEN StructuredLookup(data, targetFileName, headerEnd + 1)
                    ELSE IF \/ parts[2] = targetFileName
                            \/ Base(parts[2]) = Base(targetFileName)
                         THEN IF headerEnd + fileSize > Len(data)
                              THEN NotFound
                              ELSE Found(SubSeq(data, headerEnd + 1, headerEnd + fileSize))
                         ELSE StructuredLookup(data, targetFileName,
                                               headerEnd + 1 + fileSize)

createFileFromStructuredData(data, targetFileName) ==
    StructuredLookup(data, targetFileName, 1)

(***************************************************************************)
(* Storage layout                                                          *)
(***************************************************************************)
\* a file under .dgit: directory, name pattern, version number, base number
FileName(dir, kind, v, from) == [dir |-> dir, kind |-> kind, v |-> v, from |-> from]

NoPath == FileName("", "", 0, 0)

\* filepath.Base and filepath.Join on these names
BaseName(path) == [path EXCEPT !.dir = ""]

Join(dir, name) == [name EXCEPT !.dir = dir]

VersionsDir == "versions"

CacheDir == "cache"

ObjectsDir == "objects"

DeltaDir == "objects/deltas"

fileExists(f, path) == path \in DOMAIN f

WriteFile(f, path, bytes) ==
    [n \in DOMAIN f \cup {path} |-> IF n = path THEN bytes ELSE f[n]]

Remove(f, path) == [n \in DOMAIN f \ {path} |-> f[n]]

\* findVersionInStorage with every delta file of the version accepted as well
findVersionInStorageAnyArtifact(f, version) ==
    LET hits == {n \in DOMAIN f : n.v = version /\ n.dir \in {VersionsDir, CacheDir}
                                  /\ n.kind # "temp_v.lz4"}
    IN IF hits = {} THEN NoPath ELSE CHOOSE n \in hits : TRUE

\* CommitManager.findVersionInStorage
findVersionInStorage(f, version) ==
    IF fileExists(f, FileName(VersionsDir, "v.lz4", version, 0))
    THEN FileName(VersionsDir, "v.lz4", version, 0)
    ELSE IF fileExists(f, FileName(CacheDir, "v.lz4", version, 0))
    THEN FileName(CacheDir, "v.lz4", version, 0)
    ELSE IF fileExists(f, FileName(CacheDir, "v_optimized.zstd", version, 0))
    THEN FileName(CacheDir, "v_optimized.zstd", version, 0)
    ELSE IF fileExists(f, FileName(ObjectsDir, "v.zip", version, 0))
    THEN FileName(ObjectsDir, "v.zip", version, 0)
    ELSE NoPath

\* CommitManager.getDeltaChainLength: versions counted back to a legacy ZIP
RECURSIVE getDeltaChainLength(_, _)
getDeltaChainLength(f, ver) ==
    IF ver <= 0 THEN 0
    ELSE IF fileExists(f, FileName(ObjectsDir, "v.zip", ver, 0)) THEN 0
    ELSE 1 + getDeltaChainLength(f, ver - 1)

\* shouldCreateNewSnapshot with the chain limit never applied
shouldCreateNewSnapshotNever(f, ver, limit) == FALSE

\* CommitManager.shouldCreateNewSnapshot
shouldCreateNewSnapshot(f, ver, limit) == getDeltaChainLength(f, ver) >= limit

\* GetCurrentVersion counting the records that parse instead of scanning names
GetCurrentVersionLoaded(c) == Cardinality({n \in DOMAIN c : c[n].valid})

\* CommitManager.GetCurrentVersion: the highest v<N>.json in commits/
GetCurrentVersion(c) ==
    IF DOMAIN c = {} THEN 0 ELSE CHOOSE n \in DOMAIN c : \A m \in DOMAIN c : n >= m

(***************************************************************************)
(* Encoders of the commit side.  An encoder returns the file system it     *)
(* leaves behind together with its CompressionResult or its error.  env    *)
(* holds what the run does not control: io names the system call that      *)
(* fails during this run ("none" when all succeed), lz4Size and deltaSize  *)
(* are the sizes os.Stat reports for the files the encoders write.         *)
(***************************************************************************)
Encoded(f, strategy, path, originalSize, compressedSize, baseVersion) ==
    [ok |-> TRUE, fs |-> f, err |-> "", Strategy |-> strategy,
     OutputFile |-> BaseName(path), OriginalSize |-> originalSize,
     CompressedSize |-> compressedSize, BaseVersion |-> baseVersion]

EncodeError(f, err) ==
    [ok |-> FALSE, fs |-> f, err |-> err, Strategy |-> "", OutputFile |-> NoPath,
     OriginalSize |-> 0, CompressedSize |-> 0, BaseVersion |-> 0]

\* compressWithLZ4 rejecting a ratio of 1.2 as well
compressWithLZ4From12(f, files, version, env) ==
    LET versionPath == FileName(VersionsDir, "v.lz4", version, 0)
        originalSize == ReadSize(files)
        compressedSize == env.lz4Size
        written == WriteFile(f, versionPath, LZ4Frame(StructuredStream(files)))
    IN IF env.io = "create_lz4" THEN EncodeError(f, "create LZ4 file")
       ELSE IF originalSize = 0
       THEN EncodeError(Remove(written, versionPath), "no data to compress")
       ELSE IF 10 * compressedSize >= 12 * originalSize
       THEN EncodeError(Remove(written, versionPath), "compression failed: larger")
       ELSE IF compressedSize = 0
       THEN EncodeError(Remove(written, versionPath), "compression failed: empty")
       ELSE Encoded(written, "lz4", versionPath, originalSize, compressedSize, 0)

\* CommitManager.compressWithLZ4
compressWithLZ4(f, files, version, env) ==
    LET versionPath == FileName(VersionsDir, "v.lz4", version, 0)
        originalSize == ReadSize(files)
        compressedSize == env.lz4Size
        written == WriteFile(f, versionPath, LZ4Frame(StructuredStream(files)))
    IN IF env.io = "create_lz4" THEN EncodeError(f, "create LZ4 file")
       ELSE IF originalSize = 0
       THEN EncodeError(Remove(written, versionPath), "no data to compress")
       ELSE IF 10 * compressedSize > 12 * originalSize
       THEN EncodeError(Remove(written, versionPath), "compression failed: larger")
       ELSE IF compressedSize = 0
       THEN EncodeError(Remove(written, versionPath), "compression failed: empty")
       ELSE Encoded(written, "lz4", versionPath, originalSize, compressedSize, 0)

\* CommitManager.createTempLZ4File
createTempLZ4File(f, files, outputPath, env) ==
    IF env.io = "create_temp" THEN [ok |-> FALSE, fs |-> f]
    ELSE [ok |-> TRUE, fs |-> WriteFile(f, outputPath, LZ4Frame(StructuredStream(files)))]

\* CommitManager.openStoredFile followed by reading the stream to its end
openStoredFile(f, path) ==
    IF path.kind = "v.lz4" THEN LZ4Read(f[path])
    ELSE IF path.kind = "v_optimized.zstd" THEN ZstdRead(f[path])
    ELSE [ok |-> TRUE, bytes |-> f[path]]

\* binarydist.Diff: a patch that turns exactly old into new
BsdiffPatch(old, new) ==
    <<"BSDIFF40">> \o Itoa(Len(old)) \o <<"|">> \o old \o new

\* binarydist.Patch: fails when the patch is damaged or was made for other bytes
BsdiffApply(old, patch) ==
    LET bar == IndexFrom(patch, "|", 1)
        n == IF bar > 2 THEN ParseInt(SubSeq(patch, 2, bar - 1)) ELSE -1
    IN IF \/ Len(patch) < 3 \/ patch[1] # "BSDIFF40" \/ n < 0
          \/ bar + n > Len(patch)
       THEN NotFound
       ELSE IF SubSeq(patch, bar + 1, bar + n) # old THEN NotFound
       ELSE Found(SubSeq(patch, bar + n + 1, Len(patch)))

RECURSIVE StagedSize(_)
StagedSize(files) ==
    IF files = <<>> THEN 0 ELSE files[1].Size + StagedSize(Tail(files))

\* CommitManager.calculateCompressionResult
calculateCompressionResult(f, strategy, outputFile, files, baseVersion, env) ==
    Encoded(f, strategy, outputFile, StagedSize(files), env.deltaSize, baseVersion)

\* CommitManager.createBsdiffDelta; the deferred os.Remove(tempCurrent) runs on
\* every return
createBsdiffDelta(f, files, version, baseVersion, env) ==
    LET tempCurrent == FileName(CacheDir, "temp_v.lz4", version, 0)
        temp == createTempLZ4File(f, files, tempCurrent, env)
        f1 == temp.fs
        basePath == findVersionInStorage(f1, baseVersion)
        deltaPath == FileName(CacheDir, "v_from_v.bsdiff", version, baseVersion)
        baseFile == openStoredFile(f1, basePath)
        currentFile == f1[tempCurrent]
    IN IF ~temp.ok THEN EncodeError(Remove(f1, tempCurrent), "create temp file")
       ELSE IF basePath = NoPath
       THEN EncodeError(Remove(f1, tempCurrent), "base not found")
       ELSE IF env.io = "create_delta"
       THEN EncodeError(Remove(f1, tempCurrent), "create delta file")
       ELSE IF ~baseFile.ok
       THEN EncodeError(Remove(WriteFile(f1, deltaPath, <<>>), tempCurrent),
                        "bsdiff delta failed")
       ELSE calculateCompressionResult(
                Remove(WriteFile(f1, deltaPath,
                                 BsdiffPatch(baseFile.bytes, currentFile)),
                       tempCurrent),
                "bsdiff", deltaPath, files, baseVersion, env)

(***************************************************************************)
(* archive/zip and encoding/json                                           *)
(***************************************************************************)
\* one member of a ZIP archive: name and content, both length-prefixed
ZipEntry(name, data) ==
    <<"ZE">> \o Itoa(Len(name)) \o <<"|">> \o name \o Itoa(Len(data)) \o <<"|">> \o data

RECURSIVE ZipMembers(_)
ZipMembers(entries) ==
    IF entries = <<>> THEN <<>>
    ELSE ZipEntry(entries[1].name, entries[1].data) \o ZipMembers(Tail(entries))

\* zip.Writer: the archive holding the entries in the order they were created
ZipArchive(entries) == <<"ZIP[">> \o ZipMembers(entries) \o <<"]ZIP">>

IsZip(b) == Len(b) >= 2 /\ b[1] = "ZIP[" /\ b[Len(b)] = "]ZIP"

\* zip.Reader.File: the members of an archive, from token position pos on
RECURSIVE ZipFiles(_, _)
ZipFiles(b, pos) ==
    IF pos >= Len(b) \/ b[pos] # "ZE" THEN <<>>
    ELSE LET bar1 == IndexFrom(b, "|", pos)
             n == DigitsValue(SubSeq(b, pos + 1, bar1 - 1))
             bar2 == IndexFrom(b, "|", bar1 + n + 1)
             m == DigitsValue(SubSeq(b, bar1 + n + 1, bar2 - 1))
         IN <<[name |-> SubSeq(b, bar1 + 1, bar1 + n),
               data |-> SubSeq(b, bar2 + 1, bar2 + m)]>>
            \o ZipFiles(b, bar2 + m + 1)

\* a JSON string keeps line feeds and quotes escaped
JSONEscape(s) ==
    [i \in 1..Len(s) |-> IF s[i] = "NL" THEN "\\n"
                         ELSE IF s[i] = "QUOTE" THEN "\\QUOTE" ELSE s[i]]

JSONUnescape(s) ==
    [i \in 1..Len(s) |-> IF s[i] = "\\n" THEN "NL"
                         ELSE IF s[i] = "\\QUOTE" THEN "QUOTE" ELSE s[i]]

\* a JSON string written with its line feeds left as they are
JSONStringRaw(s) == <<"QUOTE">> \o s \o <<"QUOTE">>

JSONString(s) == <<"QUOTE">> \o JSONEscape(s) \o <<"QUOTE">>

JSONKey(k) == <<"QUOTE", k, "QUOTE", ":">>

\* json.MarshalIndent puts each member on a line of its own, indented
JSONSep == <<",", "NL", "INDENT">>

Count(s, t) == Cardinality({i \in 1..Len(s) : s[i] = t})

\* json.Unmarshal accepts an object with matching braces and closed strings,
\* and no string that holds a raw line feed
JSONValid(b) ==
    /\ Len(b) >= 2 /\ b[1] = "{" /\ b[Len(b)] = "}"
    /\ Count(b, "{") = Count(b, "}")
    /\ Count(b, "QUOTE") % 2 = 0
    /\ \A i \in 1..Len(b) : b[i] = "NL" => Count(SubSeq(b, 1, i), "QUOTE") % 2 = 0

\* the string member k of a JSON object
JSONGetString(b, k) ==
    LET p == IndexOfSeq(b, JSONKey(k))
        open == p + 4
        close == IndexFrom(b, "QUOTE", open + 1)
    IN IF p = 0 \/ open > Len(b) \/ b[open] # "QUOTE" \/ close = 0 THEN NotFound
       ELSE Found(JSONUnescape(SubSeq(b, open + 1, close - 1)))

RECURSIVE DigitRun(_, _)
DigitRun(b, pos) ==
    IF pos > Len(b) \/ b[pos] \notin DigitToks THEN <<>>
    ELSE <<b[pos]>> \o DigitRun(b, pos + 1)

\* the numeric member k of a JSON object, -1 when it is missing
JSONGetNumber(b, k) ==
    LET p == IndexOfSeq(b, JSONKey(k))
    IN IF p = 0 THEN -1 ELSE ParseInt(DigitRun(b, p + 4))

(***************************************************************************)
(* PSD layer analysis and the smart delta file                             *)
(***************************************************************************)
\* GetPSDInfo accepts a file that opens with the 8BPS signature
IsPSD(data) == Len(data) >= 1 /\ data[1] = "8BPS"

\* a fingerprint of the layer itself: its index and its name
generateLayerContentHashOfLayer(filePath, layerIndex, layerName, modTime) ==
    [path |-> <<>>, index |-> layerIndex, name |-> layerName, mtime |-> ""]

\* generateLayerContentHash: path, layer index, layer name, modification time
generateLayerContentHash(filePath, layerIndex, layerName, modTime) ==
    [path |-> filePath, index |-> layerIndex, name |-> layerName, mtime |-> modTime]

\* GetDetailedPSDInfo(...).Layers: one layer for each token after the signature
extractPSDLayerInfo(data, filePath, modTime) ==
    IF ~IsPSD(data) THEN [ok |-> FALSE, layers |-> <<>>]
    ELSE [ok |-> TRUE,
          layers |-> [i \in 1..(Len(data) - 1) |->
                        [ID |-> i, Name |-> data[i + 1],
                         ContentHash |-> generateLayerContentHash(filePath, i - 1,
                                                                  data[i + 1], modTime)]]]

\* CommitManager.extractStructuredStreamToPSD
extractStructuredStreamToPSD(data, originalFilePath) ==
    StructuredLookup(data, originalFilePath, 1)

\* CommitManager.extractStreamToPSD
extractStreamToPSD(stream, originalFilePath) ==
    IF ~stream.ok THEN NotFound
    ELSE IF IndexOfSeq(stream.bytes, <<"FILE", ":">>) > 0
    THEN extractStructuredStreamToPSD(stream.bytes, originalFilePath)
    ELSE Found(stream.bytes)

\* CommitManager.extractZipToPSD
extractZipToPSD(b, originalFilePath) ==
    LET files == ZipFiles(b, 2)
        hits == {i \in 1..Len(files) :
                    \/ Base(files[i].name) = Base(originalFilePath)
                    \/ files[i].name = originalFilePath}
    IN IF ~IsZip(b) \/ hits = {} THEN NotFound
       ELSE Found(files[CHOOSE i \in hits : \A j \in hits : i <= j].data)

\* CommitManager.extractCachedFileToPSD: the bytes written to the temporary PSD
extractCachedFileToPSD(f, cachedPath, originalFilePath) ==
    IF cachedPath.kind = "v.lz4"
    THEN extractStreamToPSD(LZ4Read(f[cachedPath]), originalFilePath)
    ELSE IF cachedPath.kind = "v_optimized.zstd"
    THEN extractStreamToPSD(ZstdRead(f[cachedPath]), originalFilePath)
    ELSE IF cachedPath.kind = "v.zip"
    THEN extractZipToPSD(f[cachedPath], originalFilePath)
    ELSE NotFound

\* the temporary file extractPreviousVersionLayers parses and then removes
tempPSDPath(baseVersion) ==
    <<"cache", "/", "temp", "/", "temp_v">> \o Itoa(baseVersion) \o <<".psd">>

\* CommitManager.extractPreviousVersionLayers
extractPreviousVersionLayers(f, baseVersion, filePath) ==
    LET basePath == findVersionInStorage(f, baseVersion)
        psd == extractCachedFileToPSD(f, basePath, filePath)
    IN IF basePath = NoPath \/ ~psd.ok THEN [ok |-> FALSE, layers |-> <<>>]
       ELSE extractPSDLayerInfo(psd.bytes, tempPSDPath(baseVersion), "now")

LayerNames(layers) == {layers[i].Name : i \in 1..Len(layers)}

\* the map built from a layer list: the last layer of a name wins
LayerByName(layers, name) ==
    layers[CHOOSE i \in 1..Len(layers) :
              /\ layers[i].Name = name
              /\ \A j \in 1..Len(layers) : layers[j].Name = name => j <= i]

\* a comparison that matches a new layer with the first old layer of its name
compareLayerVersionsFirstMatch(oldLayers, newLayers) ==
    LET FirstByName(name) ==
            oldLayers[CHOOSE i \in 1..Len(oldLayers) :
                         /\ oldLayers[i].Name = name
                         /\ \A j \in 1..(i - 1) : oldLayers[j].Name # name]
        IsAdded(l) == l.Name \notin LayerNames(oldLayers)
        IsDeleted(l) == l.Name \notin LayerNames(newLayers)
        IsChanged(l) ==
            /\ l.Name \in LayerNames(oldLayers)
            /\ FirstByName(l.Name).ContentHash # l.ContentHash
        added == SelectSeq(newLayers, IsAdded)
        deleted == SelectSeq(oldLayers, IsDeleted)
        changed == SelectSeq(newLayers, IsChanged)
    IN [TotalLayers |-> Len(newLayers),
        ChangedLayers |-> [i \in 1..Len(changed) |-> changed[i].Name],
        AddedLayers |-> [i \in 1..Len(added) |-> added[i].Name],
        DeletedLayers |-> [i \in 1..Len(deleted) |-> deleted[i].Name],
        UnchangedCount |-> Len(newLayers) - Len(changed) - Len(added)]

\* CommitManager.compareLayerVersions
compareLayerVersions(oldLayers, newLayers) ==
    LET IsAdded(l) == l.Name \notin LayerNames(oldLayers)
        IsDeleted(l) == l.Name \notin LayerNames(newLayers)
        IsChanged(l) ==
            /\ l.Name \in LayerNames(oldLayers)
            /\ LayerByName(oldLayers, l.Name).ContentHash # l.ContentHash
        added == SelectSeq(newLayers, IsAdded)
        deleted == SelectSeq(oldLayers, IsDeleted)
        changed == SelectSeq(newLayers, IsChanged)
    IN [TotalLayers |-> Len(newLayers),
        ChangedLayers |-> [i \in 1..Len(changed) |-> changed[i].Name],
        AddedLayers |-> [i \in 1..Len(added) |-> added[i].Name],
        DeletedLayers |-> [i \in 1..Len(deleted) |-> deleted[i].Name],
        UnchangedCount |-> Len(newLayers) - Len(changed) - Len(added)]

RECURSIVE JSONNames(_)
JSONNames(names) ==
    IF names = <<>> THEN <<>>
    ELSE JSONString(<<names[1]>>) \o (IF Len(names) > 1 THEN <<",">> ELSE <<>>)
         \o JSONNames(Tail(names))

\* json.MarshalIndent of a ChangeAnalysis
AnalysisJSON(analysis) ==
    <<"{">> \o JSONKey("added_layers") \o <<"[">> \o JSONNames(analysis.AddedLayers)
    \o <<"]">> \o JSONSep
    \o JSONKey("changed_layers") \o <<"[">> \o JSONNames(analysis.ChangedLayers)
    \o <<"]">> \o JSONSep
    \o JSONKey("deleted_layers") \o <<"[">> \o JSONNames(analysis.DeletedLayers)
    \o <<"]">> \o JSONSep
    \o JSONKey("total_layers") \o Itoa(analysis.TotalLayers) \o JSONSep
    \o JSONKey("unchanged_count") \o Itoa(analysis.UnchangedCount) \o <<"}">>

\* the manifest with the file path written without escaping
deltaMetadataRaw(psdFile, analysis, baseVersion, version) ==
    <<"{", "NL", "INDENT">>
    \o JSONKey("file_path") \o JSONStringRaw(psdFile.Path) \o JSONSep
    \o JSONKey("from_version") \o Itoa(baseVersion) \o JSONSep
    \o JSONKey("layer_analysis") \o AnalysisJSON(analysis) \o JSONSep
    \o JSONKey("original_size") \o Itoa(psdFile.Size) \o JSONSep
    \o JSONKey("timestamp") \o JSONString(<<"now">>) \o JSONSep
    \o JSONKey("to_version") \o Itoa(version) \o JSONSep
    \o JSONKey("type") \o JSONString(<<"psd_smart_delta">>) \o <<"NL", "}">>

\* json.MarshalIndent(deltaMetadata) of createSmartDeltaFile
deltaMetadata(psdFile, analysis, baseVersion, version) ==
    <<"{", "NL", "INDENT">>
    \o JSONKey("file_path") \o JSONString(psdFile.Path) \o JSONSep
    \o JSONKey("from_version") \o Itoa(baseVersion) \o JSONSep
    \o JSONKey("layer_analysis") \o AnalysisJSON(analysis) \o JSONSep
    \o JSONKey("original_size") \o Itoa(psdFile.Size) \o JSONSep
    \o JSONKey("timestamp") \o JSONString(<<"now">>) \o JSONSep
    \o JSONKey("to_version") \o Itoa(version) \o JSONSep
    \o JSONKey("type") \o JSONString(<<"psd_smart_delta">>) \o <<"NL", "}">>

BinaryDataMarker == <<"NL", "BINARY_DATA", ":", "NL">>

\* the part of a smart delta file written before the PSD is read
SmartDeltaHead(metadataBytes) ==
    <<"PSD_SMART_DELTA_V1", "NL", "METADATA_LENGTH", ":">> \o Itoa(Len(metadataBytes))
    \o <<"NL">> \o metadataBytes \o BinaryDataMarker

\* CommitManager.createSmartDeltaFile: the bytes left at deltaPath
createSmartDeltaFile(psdFile, analysis, baseVersion, version) ==
    LET head == SmartDeltaHead(deltaMetadata(psdFile, analysis, baseVersion, version))
    IN IF ~psdFile.readable THEN [ok |-> FALSE, bytes |-> head]
       ELSE [ok |-> TRUE, bytes |-> head \o LZ4Frame(psdFile.data)]

\* the first staged file with a .psd extension (0 when there is none)
FirstPSD(files) ==
    LET hits == {i \in 1..Len(files) : ToLower(Ext(files[i].Path)) = ".psd"}
    IN IF hits = {} THEN 0 ELSE CHOOSE i \in hits : \A j \in hits : i <= j

\* CommitManager.fallbackToBinaryDelta
fallbackToBinaryDelta(f, files, version, baseVersion, env) ==
    createBsdiffDelta(f, files, version, baseVersion, env)

\* CommitManager.createPSDSmartDelta
createPSDSmartDelta(f, files, version, baseVersion, env) ==
    LET psdFile == files[FirstPSD(files)]
        currentLayers ==
            IF psdFile.readable
            THEN extractPSDLayerInfo(psdFile.data, psdFile.Path, "staged")
            ELSE [ok |-> FALSE, layers |-> <<>>]
        previousLayers == extractPreviousVersionLayers(f, baseVersion, psdFile.Path)
        changeAnalysis == compareLayerVersions(previousLayers.layers,
                                               currentLayers.layers)
        deltaPath == FileName(CacheDir, "v_from_v.psd_smart", version, baseVersion)
        delta == createSmartDeltaFile(psdFile, changeAnalysis, baseVersion, version)
    IN IF FirstPSD(files) = 0 THEN EncodeError(f, "no PSD file found")
       ELSE IF ~currentLayers.ok
       THEN fallbackToBinaryDelta(f, files, version, baseVersion, env)
       ELSE IF ~previousLayers.ok
       THEN fallbackToBinaryDelta(f, files, version, baseVersion, env)
       ELSE IF env.io = "create_delta" THEN EncodeError(f, "create smart delta file")
       ELSE IF ~delta.ok
       THEN EncodeError(WriteFile(f, deltaPath, delta.bytes), "create smart delta file")
       ELSE Encoded(WriteFile(f, deltaPath, delta.bytes), "psd_smart", deltaPath,
                    psdFile.Size, env.deltaSize, baseVersion)

\* CommitManager.selectDeltaAlgorithm
selectDeltaAlgorithm(files) ==
    IF FirstPSD(files) # 0 THEN "psd_smart" ELSE "bsdiff"

\* CommitManager.createDelta
createDelta(f, files, version, baseVersion, env) ==
    IF selectDeltaAlgorithm(files) = "psd_smart"
    THEN createPSDSmartDelta(f, files, version, baseVersion, env)
    ELSE createBsdiffDelta(f, files, version, baseVersion, env)

SmallFileThreshold == 52428800

\* shouldUseLZ4 comparing the extension as it is written
shouldUseLZ4CaseSensitive(files, version) ==
    \/ version = 1
    \/ \A i \in 1..Len(files) :
          /\ ~(files[i].Size > SmallFileThreshold)
          /\ Ext(files[i].Path) \notin {".psd", ".ai", ".sketch"}

\* CommitManager.shouldUseLZ4
shouldUseLZ4(files, version) ==
    \/ version = 1
    \/ \A i \in 1..Len(files) :
          /\ ~(files[i].Size > SmallFileThreshold)
          /\ ToLower(Ext(files[i].Path)) \notin {".psd", ".ai", ".sketch"}

\* the test of createSnapshot with the boundary 0.7 left out
DeltaEffectiveBelow(d) ==
    d.OriginalSize > 0 /\ 10 * d.CompressedSize < 7 * d.OriginalSize

\* the test createSnapshot applies to a delta: CompressionRatio <= 0.7
DeltaEffective(d) ==
    d.OriginalSize > 0 /\ 10 * d.CompressedSize <= 7 * d.OriginalSize

\* createSnapshot once createDelta has returned deltaResult: keep an effective
\* delta, otherwise remove <DeltaDir>/<OutputFile> and fall back to LZ4
snapshotAfterDelta(files, version, env, deltaResult) ==
    IF deltaResult.ok /\ DeltaEffective(deltaResult)
    THEN [res |-> deltaResult, tried |-> TRUE, delta |-> deltaResult,
          algorithm |-> selectDeltaAlgorithm(files)]
    ELSE [res |-> compressWithLZ4(
                      IF deltaResult.ok
                      THEN Remove(deltaResult.fs, Join(DeltaDir, deltaResult.OutputFile))
                      ELSE deltaResult.fs,
                      files, version, env),
          tried |-> TRUE, delta |-> deltaResult,
          algorithm |-> selectDeltaAlgorithm(files)]

\* CommitManager.createSnapshot; tried, algorithm and delta report the delta
\* attempt: whether createDelta ran, with which algorithm, and what it returned
createSnapshot(f, files, version, prevVersion, limit, env) ==
    IF shouldUseLZ4(files, version)
    THEN [res |-> compressWithLZ4(f, files, version, env), tried |-> FALSE,
          delta |-> EncodeError(f, ""), algorithm |-> ""]
    ELSE IF version > 1 /\ ~shouldCreateNewSnapshot(f, prevVersion, limit)
    THEN snapshotAfterDelta(files, version, env,
                            createDelta(f, files, version, prevVersion, env))
    ELSE [res |-> compressWithLZ4(f, files, version, env), tried |-> FALSE,
          delta |-> EncodeError(f, ""), algorithm |-> ""]

(***************************************************************************)
(* Commit records and CreateCommit                                         *)
(***************************************************************************)
\* the (path, size) pairs generateCommitHash feeds to SHA-256
HashInput(files) == [i \in 1..Len(files) |-> [path |-> files[i].Path, size |-> files[i].Size]]

NoHash == [ver |-> 0, files |-> <<>>]

\* CommitManager.generateCommitHash: distinct inputs give distinct hashes
generateCommitHash(files, ver) == [ver |-> ver, files |-> HashInput(files)]

\* CommitManager.getCurrentCommitHash
getCurrentCommitHash(head) == head

\* CommitManager.scanFilesMetadata: the keys of the metadata map
scanFilesMetadata(files) == Paths(files)

\* the Commit that saveCommitMetadata marshals into commits/v<N>.json
CommitRecord(hash, version, files, parent, res) ==
    [valid |-> TRUE, Hash |-> hash, Version |-> version, FilesCount |-> Len(files),
     Metadata |-> scanFilesMetadata(files), ParentHash |-> parent,
     Strategy |-> res.Strategy, OutputFile |-> res.OutputFile,
     BaseVersion |-> res.BaseVersion]

\* a v<N>.json whose write stopped half way: no JSON document
PartialRecord ==
    [valid |-> FALSE, Hash |-> NoHash, Version |-> 0, FilesCount |-> 0,
     Metadata |-> {}, ParentHash |-> NoHash, Strategy |-> "", OutputFile |-> NoPath,
     BaseVersion |-> 0]

\* what createDelta returned, without the file system
DeltaReport(d) ==
    [ok |-> d.ok, Strategy |-> d.Strategy, OutputFile |-> d.OutputFile,
     OriginalSize |-> d.OriginalSize, CompressedSize |-> d.CompressedSize]

NoCommitYet ==
    [called |-> FALSE, version |-> 0, ok |-> FALSE, err |-> "", nfiles |-> 0,
     tried |-> FALSE, deltaErr |-> "", deltaEffective |-> FALSE,
     files |-> <<>>, env |-> [io |-> "none", lz4Size |-> 0, deltaSize |-> 0],
     algorithm |-> "", delta |-> DeltaReport(EncodeError(<<>>, ""))]

\* what the latest CreateCommit call did
Outcome(version, ok, err, files, env, snap) ==
    [called |-> TRUE, version |-> version, ok |-> ok, err |-> err,
     nfiles |-> Len(files), tried |-> snap.tried, deltaErr |-> snap.delta.err,
     deltaEffective |-> snap.delta.ok /\ DeltaEffective(snap.delta),
     files |-> files, env |-> env, algorithm |-> snap.algorithm,
     delta |-> DeltaReport(snap.delta)]

\* no CreateCommit call is between its first write and its return
NotCommitting ==
    [active |-> FALSE, version |-> 0, files |-> <<>>,
     env |-> [io |-> "none", lz4Size |-> 0, deltaSize |-> 0]]

\* NewCommitManager: enableBackgroundOpt
enableBackgroundOpt == TRUE

\* no scheduleBackgroundOptimization goroutine is alive
NoOptimizer == [n \in {} |-> [stage |-> "", OutputFile |-> NoPath]]

NoSnapshot ==
    [res |-> EncodeError(<<>>, ""), tried |-> FALSE, delta |-> EncodeError(<<>>, ""),
     algorithm |-> ""]

\* the working directory files written by one call: relative path -> bytes
NoFiles == [p \in {} |-> <<>>]

NoRestoreYet ==
    [called |-> FALSE, version |-> 0, filter |-> <<>>, ok |-> FALSE, err |-> "",
     RestoreMethod |-> "", written |-> NoFiles, ErrorFiles |-> {},
     SkippedFiles |-> {}, during |-> NotCommitting, optimized |-> "absent",
     optimizing |-> FALSE]

\* CreateCommit from the point where createSnapshot has returned snap
CommitSnapshot(files, env, newVersion, snap) ==
    LET hash == generateCommitHash(files, newVersion)
        record == CommitRecord(hash, newVersion, files, getCurrentCommitHash(HEAD),
                               snap.res)
    IN /\ fs' = snap.res.fs
       /\ optimizer' = IF /\ snap.res.ok
                          /\ env.io = "none"
                          /\ enableBackgroundOpt
                          /\ snap.res.Strategy = "lz4"
                       THEN (newVersion :> [stage |-> "sleeping",
                                            OutputFile |-> snap.res.OutputFile])
                            @@ optimizer
                       ELSE optimizer
       /\ IF ~snap.res.ok
          THEN /\ lastCommit' = Outcome(newVersion, FALSE, "snapshot creation failed",
                                        files, env, snap)
               /\ UNCHANGED <<commits, HEAD, staged>>
          ELSE IF env.io = "record_open"
          THEN /\ lastCommit' = Outcome(newVersion, FALSE, "save metadata failed",
                                        files, env, snap)
               /\ UNCHANGED <<commits, HEAD, staged>>
          ELSE IF env.io = "record_write"
          THEN /\ commits' = (newVersion :> PartialRecord) @@ commits
               /\ lastCommit' = Outcome(newVersion, FALSE, "save metadata failed",
                                        files, env, snap)
               /\ UNCHANGED <<HEAD, staged>>
          ELSE /\ commits' = (newVersion :> record) @@ commits
               /\ staged' = (newVersion :>
                                [files |-> files,
                                 success |-> env.io \notin {"head_open", "head_write"}])
                             @@ staged
               /\ IF env.io = "head_open"
                  THEN /\ UNCHANGED HEAD
                       /\ lastCommit' = Outcome(newVersion, FALSE, "update HEAD failed",
                                                files, env, snap)
                  ELSE IF env.io = "head_write"
                  THEN /\ HEAD' = NoHash
                       /\ lastCommit' = Outcome(newVersion, FALSE, "update HEAD failed",
                                                files, env, snap)
                  ELSE /\ HEAD' = hash
                       /\ lastCommit' = Outcome(newVersion, TRUE, "", files, env, snap)

\* CreateCommit without the validation of its input
CreateCommitUnvalidated(files, env) ==
    /\ GetCurrentVersion(commits) < MaxVersion
    /\ env.io # "none" => faults < MaxFaults
    /\ faults' = IF env.io # "none" THEN faults + 1 ELSE faults
    /\ lastRestore' = NoRestoreYet
    /\ committing' = NotCommitting
    /\ UNCHANGED <<MaxDeltaChainLength, pureIn, pureOut>>
    /\ \E snap \in {createSnapshot(fs, files, GetCurrentVersion(commits) + 1,
                                    GetCurrentVersion(commits),
                                    MaxDeltaChainLength, env)} :
          CommitSnapshot(files, env, GetCurrentVersion(commits) + 1, snap)

\* CommitManager.CreateCommit
CreateCommit(files, env) ==
    /\ GetCurrentVersion(commits) < MaxVersion
    /\ env.io # "none" => faults < MaxFaults
    /\ faults' = IF env.io # "none" THEN faults + 1 ELSE faults
    /\ lastRestore' = NoRestoreYet
    /\ committing' = NotCommitting
    /\ UNCHANGED <<MaxDeltaChainLength, pureIn, pureOut>>
    /\ IF Len(files) = 0
       THEN /\ lastCommit' = Outcome(GetCurrentVersion(commits) + 1, FALSE,
                                     "no files staged for commit", files, env,
                                     NoSnapshot)
            /\ UNCHANGED <<fs, commits, HEAD, staged, optimizer>>
       ELSE \E snap \in {createSnapshot(fs, files, GetCurrentVersion(commits) + 1,
                                         GetCurrentVersion(commits),
                                         MaxDeltaChainLength, env)} :
               CommitSnapshot(files, env, GetCurrentVersion(commits) + 1, snap)

(***************************************************************************)
(* Restore: what a RestoreManager call writes into the working directory   *)
(***************************************************************************)
\* a RestoreResult returned without error, and the repository it leaves
Restored(method, written, errorFiles, skipped, f) ==
    [ok |-> TRUE, err |-> "", RestoreMethod |-> method, written |-> written,
     ErrorFiles |-> errorFiles, SkippedFiles |-> skipped, fs |-> f]

RestoreError(method, err, f) ==
    [ok |-> FALSE, err |-> err, RestoreMethod |-> method, written |-> NoFiles,
     ErrorFiles |-> {}, SkippedFiles |-> {}, fs |-> f]

\* GetCommit presuming an LZ4 snapshot for a version whose v<N>.json does not load
GetCommitPresumed(c, version) ==
    IF version \in DOMAIN c /\ c[version].valid
    THEN [ok |-> TRUE, commit |-> c[version]]
    ELSE [ok |-> TRUE,
          commit |-> [PartialRecord EXCEPT !.valid = TRUE, !.Version = version,
                                           !.Strategy = "lz4",
                                           !.OutputFile = FileName("", "v.lz4",
                                                                   version, 0)]]

\* GetCommit answering with the latest record that loads when v<N>.json does not
GetCommitNearest(c, version) ==
    IF version \in DOMAIN c /\ c[version].valid
    THEN [ok |-> TRUE, commit |-> c[version]]
    ELSE IF \E n \in DOMAIN c : c[n].valid
    THEN [ok |-> TRUE,
          commit |-> c[CHOOSE n \in DOMAIN c :
                          c[n].valid /\ \A m \in DOMAIN c : c[m].valid => m <= n]]
    ELSE [ok |-> FALSE, commit |-> PartialRecord]

\* LogManager.GetCommit: v<N>.json must exist and hold a JSON document
GetCommit(c, version) ==
    IF version \in DOMAIN c /\ c[version].valid
    THEN [ok |-> TRUE, commit |-> c[version]]
    ELSE [ok |-> FALSE, commit |-> PartialRecord]

\* strings.Trim(target, "/")
RECURSIVE TrimSlash(_)
TrimSlash(s) ==
    IF s # <<>> /\ s[1] = "/" THEN TrimSlash(Tail(s))
    ELSE IF s # <<>> /\ s[Len(s)] = "/" THEN TrimSlash(SubSeq(s, 1, Len(s) - 1))
    ELSE s

\* filepath.Clean on a relative path: a trailing separator is dropped
Clean(s) ==
    IF Len(s) > 1 /\ s[Len(s)] = "/" THEN SubSeq(s, 1, Len(s) - 1) ELSE s

Contains(s, sub) == sub = <<>> \/ IndexOfSeq(s, sub) > 0

\* RestoreManager.shouldRestoreFile
shouldRestoreFile(filePathInZip, normalizedTargets) ==
    \E i \in 1..Len(normalizedTargets) :
        \/ filePathInZip = normalizedTargets[i]
        \/ Base(filePathInZip) = Base(normalizedTargets[i])
        \/ /\ HasSuffix(normalizedTargets[i], <<"/">>)
           /\ HasPrefix(filePathInZip, normalizedTargets[i])
        \/ Contains(filePathInZip, TrimSlash(normalizedTargets[i]))

\* the file loop of extractFromLZ4 over the keys of commit.Metadata
extractStructured(method, metadata, data, filesToRestore, f) ==
    LET wanted == {p \in metadata :
                      \/ filesToRestore = <<>>
                      \/ \E i \in 1..Len(filesToRestore) :
                            shouldRestoreFile(p, <<filesToRestore[i]>>)}
        restored == {p \in wanted : createFileFromStructuredData(data, p).ok}
    IN Restored(method,
                [p \in restored |-> createFileFromStructuredData(data, p).bytes],
                wanted \ restored, metadata \ wanted, f)

\* RestoreManager.extractFromLZ4
extractFromLZ4(f, c, lz4Path, filesToRestore, method) ==
    IF ~GetCommit(c, lz4Path.v).ok THEN RestoreError(method, "failed to load commit", f)
    ELSE IF ~LZ4Read(f[lz4Path]).ok
    THEN RestoreError(method, "failed to decompress LZ4 data", f)
    ELSE extractStructured(method, GetCommit(c, lz4Path.v).commit.Metadata,
                           LZ4Read(f[lz4Path]).bytes, filesToRestore, f)

\* the records extractFilesFromStream walks over: name, bytes, skipped or not
RECURSIVE StreamRecords(_, _, _)
StreamRecords(data, pos, targets) ==
    IF pos > Len(data) THEN <<>>
    ELSE LET headerEnd == IndexFrom(data, "NL", pos)
         IN IF headerEnd = 0 THEN <<>>
            ELSE LET headerLine == SubSeq(data, pos, headerEnd - 1)
                     parts == Split(headerLine, ":")
                     fileSize == IF Len(parts) = 3 THEN parseInt64(parts[3]) ELSE 0
                 IN IF \/ ~HasPrefix(headerLine, <<"FILE", ":">>)
                       \/ Len(parts) # 3
                       \/ fileSize <= 0
                    THEN StreamRecords(data, headerEnd + 1, targets)
                    ELSE IF targets # <<>> /\ ~shouldRestoreFile(parts[2], targets)
                    THEN <<[name |-> parts[2], data |-> <<>>, skip |-> TRUE]>>
                         \o StreamRecords(data, headerEnd + 1 + fileSize, targets)
                    ELSE IF headerEnd + fileSize > Len(data) THEN <<>>
                    ELSE <<[name |-> parts[2],
                            data |-> SubSeq(data, headerEnd + 1, headerEnd + fileSize),
                            skip |-> FALSE]>>
                         \o StreamRecords(data, headerEnd + 1 + fileSize, targets)

\* the files a sequence of archive members leaves: a later member of the same
\* name overwrites an earlier one
WrittenFrom(entries) ==
    [p \in {entries[i].name : i \in {j \in 1..Len(entries) : ~entries[j].skip}} |->
        entries[CHOOSE i \in 1..Len(entries) :
                   /\ entries[i].name = p /\ ~entries[i].skip
                   /\ \A j \in 1..Len(entries) :
                         (entries[j].name = p /\ ~entries[j].skip) => j <= i].data]

SkippedIn(entries) == {entries[i].name : i \in {j \in 1..Len(entries) : entries[j].skip}}

\* RestoreManager.extractFilesFromStream
extractFilesFromStream(data, filesToRestore, method, f) ==
    Restored(method,
             WrittenFrom(StreamRecords(data, 1, [i \in 1..Len(filesToRestore) |->
                                                    Clean(filesToRestore[i])])),
             {},
             SkippedIn(StreamRecords(data, 1, [i \in 1..Len(filesToRestore) |->
                                                  Clean(filesToRestore[i])])),
             f)

\* RestoreManager.extractFromZstd
extractFromZstd(f, zstdPath, filesToRestore, method) ==
    IF ~ZstdRead(f[zstdPath]).ok THEN RestoreError(method, "failed to read stream", f)
    ELSE extractFilesFromStream(ZstdRead(f[zstdPath]).bytes, filesToRestore, method, f)

\* the bytes after the first "\nBINARY_DATA:\n", read through an LZ4 reader
smartDeltaPayload(deltaData) ==
    IF IndexOfSeq(deltaData, BinaryDataMarker) = 0 THEN NotFound
    ELSE LZ4Read(SubSeq(deltaData,
                        IndexOfSeq(deltaData, BinaryDataMarker) + Len(BinaryDataMarker),
                        Len(deltaData)))

\* restoreFromSmartDelta: the checks on the JSON manifest ("" when they pass)
smartDeltaManifestError(metadataBytes) ==
    IF ~JSONValid(metadataBytes) THEN "failed to parse delta metadata"
    ELSE IF ~JSONGetString(metadataBytes, "file_path").ok
    THEN "missing file_path in metadata"
    ELSE IF JSONGetNumber(metadataBytes, "from_version") < 0
    THEN "missing from_version in metadata"
    ELSE ""

\* restoreFromSmartDelta: the checks on the header lines ("" when they pass)
smartDeltaHeaderError(deltaData, lines) ==
    IF Len(lines) < 3 THEN "invalid smart delta format: too few lines"
    ELSE IF lines[1] # <<"PSD_SMART_DELTA_V1">> THEN "invalid smart delta header"
    ELSE IF ~HasPrefix(lines[2], <<"METADATA_LENGTH", ":">>)
    THEN "invalid metadata length line"
    ELSE IF ParseInt(SubSeq(lines[2], 3, Len(lines[2]))) < 0
    THEN "failed to parse metadata length"
    ELSE IF Len(lines[1]) + 1 + Len(lines[2]) + 1
            + ParseInt(SubSeq(lines[2], 3, Len(lines[2]))) > Len(deltaData)
    THEN "invalid metadata length: exceeds file size"
    ELSE ""

\* the metadataBytes slice of a smart delta file whose header lines passed
smartDeltaManifest(deltaData, lines) ==
    SubSeq(deltaData, Len(lines[1]) + 1 + Len(lines[2]) + 1 + 1,
           Len(lines[1]) + 1 + Len(lines[2]) + 1
           + ParseInt(SubSeq(lines[2], 3, Len(lines[2]))))

\* restoreFromSmartDelta once the delta file has been read
restoreSmartDeltaData(deltaData, lines, filesToRestore, f) ==
    IF smartDeltaHeaderError(deltaData, lines) # ""
    THEN RestoreError("smart_delta", smartDeltaHeaderError(deltaData, lines), f)
    ELSE IF smartDeltaManifestError(smartDeltaManifest(deltaData, lines)) # ""
    THEN RestoreError("smart_delta",
                      smartDeltaManifestError(smartDeltaManifest(deltaData, lines)), f)
    ELSE IF IndexOfSeq(deltaData, BinaryDataMarker) = 0
    THEN RestoreError("smart_delta", "binary data marker not found", f)
    ELSE IF ~smartDeltaPayload(deltaData).ok
    THEN RestoreError("smart_delta", "failed to decompress LZ4 data", f)
    ELSE IF /\ filesToRestore # <<>>
            /\ ~\E i \in 1..Len(filesToRestore) :
                   shouldRestoreFile(
                       JSONGetString(smartDeltaManifest(deltaData, lines),
                                     "file_path").bytes,
                       <<filesToRestore[i]>>)
    THEN Restored("smart_delta", NoFiles, {},
                  {JSONGetString(smartDeltaManifest(deltaData, lines),
                                 "file_path").bytes}, f)
    ELSE Restored("smart_delta",
                  [p \in {JSONGetString(smartDeltaManifest(deltaData, lines),
                                        "file_path").bytes} |->
                      smartDeltaPayload(deltaData).bytes],
                  {}, {}, f)

\* RestoreManager.restoreFromSmartDelta
restoreFromSmartDelta(f, commit, filesToRestore) ==
    IF fileExists(f, Join(CacheDir, commit.OutputFile))
    THEN restoreSmartDeltaData(f[Join(CacheDir, commit.OutputFile)],
                               Split(f[Join(CacheDir, commit.OutputFile)], "NL"),
                               filesToRestore, f)
    ELSE IF fileExists(f, Join(VersionsDir, commit.OutputFile))
    THEN restoreSmartDeltaData(f[Join(VersionsDir, commit.OutputFile)],
                               Split(f[Join(VersionsDir, commit.OutputFile)], "NL"),
                               filesToRestore, f)
    ELSE RestoreError("smart_delta", "smart delta file not found", f)

\* applySmartDelta once the delta file has been read: the bytes left at newFile
applySmartDeltaData(base, deltaData, lines) ==
    IF ~HasPrefix(deltaData, <<"PSD_SMART_DELTA_V1">>) THEN Found(base)
    ELSE IF Len(lines) < 3 THEN NotFound
    ELSE IF ~HasPrefix(lines[2], <<"METADATA_LENGTH", ":">>) THEN NotFound
    ELSE IF ParseInt(SubSeq(lines[2], 3, Len(lines[2]))) < 0 THEN NotFound
    ELSE smartDeltaPayload(deltaData)

\* RestoreManager.applySmartDelta
applySmartDelta(f, baseFile, deltaFile, newFile) ==
    IF applySmartDeltaData(f[baseFile], f[deltaFile], Split(f[deltaFile], "NL")).ok
    THEN [ok |-> TRUE,
          fs |-> WriteFile(f, newFile,
                           applySmartDeltaData(f[baseFile], f[deltaFile],
                                               Split(f[deltaFile], "NL")).bytes)]
    ELSE [ok |-> FALSE, fs |-> f]

\* the members of an archive with the filter of extractFilesFromZip applied
ZipSelection(members, targets) ==
    [i \in 1..Len(members) |->
        [name |-> members[i].name, data |-> members[i].data,
         skip |-> targets # <<>> /\ ~shouldRestoreFile(members[i].name, targets)]]

\* RestoreManager.extractFilesFromZip
extractFilesFromZip(f, zipPath, filesToRestore, method) ==
    IF ~IsZip(f[zipPath]) THEN RestoreError(method, "failed to open ZIP file", f)
    ELSE Restored(method,
                  WrittenFrom(ZipSelection(ZipFiles(f[zipPath], 2),
                                           [i \in 1..Len(filesToRestore) |->
                                               Clean(filesToRestore[i])])),
                  {},
                  SkippedIn(ZipSelection(ZipFiles(f[zipPath], 2),
                                         [i \in 1..Len(filesToRestore) |->
                                             Clean(filesToRestore[i])])),
                  f)

\* RestoreManager.restoreFromZip
restoreFromZip(f, zipFileName, filesToRestore) ==
    IF ~fileExists(f, Join(ObjectsDir, zipFileName))
    THEN RestoreError("zip", "ZIP file not found", f)
    ELSE extractFilesFromZip(f, Join(ObjectsDir, zipFileName), filesToRestore, "zip")

\* the ZIP entries convertStreamToZip creates from a structured stream
RECURSIVE convertStreamToZip(_, _)
convertStreamToZip(data, pos) ==
    IF pos > Len(data) THEN <<>>
    ELSE LET headerEnd == IndexFrom(data, "NL", pos)
         IN IF headerEnd = 0 THEN <<>>
            ELSE LET headerLine == SubSeq(data, pos, headerEnd - 1)
                     parts == Split(headerLine, ":")
                     fileSize == IF Len(parts) = 3 THEN parseInt64(parts[3]) ELSE 0
                 IN IF \/ ~HasPrefix(headerLine, <<"FILE", ":">>)
                       \/ Len(parts) # 3
                       \/ fileSize <= 0
                    THEN convertStreamToZip(data, headerEnd + 1)
                    ELSE IF headerEnd + fileSize > Len(data) THEN <<>>
                    ELSE <<[name |-> parts[2],
                            data |-> SubSeq(data, headerEnd + 1, headerEnd + fileSize)]>>
                         \o convertStreamToZip(data, headerEnd + 1 + fileSize)

\* RestoreManager.convertLZ4ToZip: a failing reader leaves an empty archive
convertLZ4ToZip(f, lz4Path, zipPath) ==
    IF ~LZ4Read(f[lz4Path]).ok
    THEN [ok |-> FALSE, fs |-> WriteFile(f, zipPath, ZipArchive(<<>>))]
    ELSE [ok |-> TRUE,
          fs |-> WriteFile(f, zipPath,
                           ZipArchive(convertStreamToZip(LZ4Read(f[lz4Path]).bytes, 1)))]

\* RestoreManager.convertZstdToZip
convertZstdToZip(f, zstdPath, zipPath) ==
    IF ~ZstdRead(f[zstdPath]).ok THEN [ok |-> FALSE, fs |-> f]
    ELSE [ok |-> TRUE,
          fs |-> WriteFile(f, zipPath,
                           ZipArchive(convertStreamToZip(ZstdRead(f[zstdPath]).bytes, 1)))]

\* RestoreManager.copyFile
copyFile(f, src, dst) == [ok |-> TRUE, fs |-> WriteFile(f, dst, f[src])]

\* RestoreManager.applyBsdiffPatch: newFile is created before the patch is applied
applyBsdiffPatch(f, oldFile, patchFile, newFile) ==
    IF BsdiffApply(f[oldFile], f[patchFile]).ok
    THEN [ok |-> TRUE,
          fs |-> WriteFile(f, newFile, BsdiffApply(f[oldFile], f[patchFile]).bytes)]
    ELSE [ok |-> FALSE, fs |-> WriteFile(f, newFile, <<>>)]

RestorationStep(type, file, version) == [Type |-> type, File |-> file, Version |-> version]

\* RestoreManager.findOptimizedRestorationPath, walking back from currentVersion
\* with the steps found so far
RECURSIVE findOptimizedRestorationPath(_, _, _)
findOptimizedRestorationPath(f, currentVersion, path) ==
    IF currentVersion <= 0
    THEN [ok |-> path # <<>>, path |-> path]
    ELSE IF fileExists(f, FileName(VersionsDir, "v.lz4", currentVersion, 0))
    THEN [ok |-> TRUE,
          path |-> <<RestorationStep("lz4", FileName(VersionsDir, "v.lz4",
                                                     currentVersion, 0),
                                     currentVersion)>> \o path]
    ELSE IF fileExists(f, FileName(CacheDir, "v.lz4", currentVersion, 0))
    THEN [ok |-> TRUE,
          path |-> <<RestorationStep("lz4", FileName(CacheDir, "v.lz4",
                                                     currentVersion, 0),
                                     currentVersion)>> \o path]
    ELSE IF fileExists(f, FileName(CacheDir, "v_optimized.zstd", currentVersion, 0))
    THEN [ok |-> TRUE,
          path |-> <<RestorationStep("zstd", FileName(CacheDir, "v_optimized.zstd",
                                                      currentVersion, 0),
                                     currentVersion)>> \o path]
    ELSE IF fileExists(f, FileName(ObjectsDir, "v.zip", currentVersion, 0))
    THEN [ok |-> TRUE,
          path |-> <<RestorationStep("zip", FileName(ObjectsDir, "v.zip",
                                                     currentVersion, 0),
                                     currentVersion)>> \o path]
    ELSE IF fileExists(f, FileName(DeltaDir, "v_from_v.bsdiff", currentVersion,
                                   currentVersion - 1))
    THEN findOptimizedRestorationPath(f, currentVersion - 1,
             <<RestorationStep("bsdiff", FileName(DeltaDir, "v_from_v.bsdiff",
                                                  currentVersion, currentVersion - 1),
                               currentVersion)>> \o path)
    ELSE IF fileExists(f, FileName(CacheDir, "v_from_v.psd_smart", currentVersion,
                                   currentVersion - 1))
    THEN findOptimizedRestorationPath(f, currentVersion - 1,
             <<RestorationStep("smart_delta", FileName(CacheDir, "v_from_v.psd_smart",
                                                       currentVersion,
                                                       currentVersion - 1),
                               currentVersion)>> \o path)
    ELSE [ok |-> FALSE, path |-> <<>>]

\* objects/temp_restore_<nanoseconds>[_<i>].zip of the i-th step of a path
TempRestore(i) == FileName(ObjectsDir, "temp_restore.zip", i, 0)

\* executeOptimizedRestorationPath: the working file for the base step
convertBaseStep(f, baseStep, tempFile) ==
    IF baseStep.Type = "lz4" THEN convertLZ4ToZip(f, baseStep.File, tempFile)
    ELSE IF baseStep.Type = "zstd" THEN convertZstdToZip(f, baseStep.File, tempFile)
    ELSE IF baseStep.Type = "zip" THEN copyFile(f, baseStep.File, tempFile)
    ELSE [ok |-> FALSE, fs |-> f]

\* executeOptimizedRestorationPath: one delta step from tempFile to nextTempFile
applyDeltaStep(f, step, tempFile, nextTempFile) ==
    IF step.Type = "bsdiff" THEN applyBsdiffPatch(f, tempFile, step.File, nextTempFile)
    ELSE IF step.Type = "smart_delta"
    THEN applySmartDelta(f, tempFile, step.File, nextTempFile)
    ELSE [ok |-> FALSE, fs |-> f]

\* executeOptimizedRestorationPath: the loop over path[i..], after step i - 1 left
\* its result in TempRestore(i - 2)
RECURSIVE applyDeltaSteps(_, _, _)
applyDeltaSteps(f, path, i) ==
    IF i > Len(path) THEN [ok |-> TRUE, fs |-> f, tempFile |-> TempRestore(i - 2)]
    ELSE IF ~applyDeltaStep(f, path[i], TempRestore(i - 2), TempRestore(i - 1)).ok
    THEN [ok |-> FALSE,
          fs |-> applyDeltaStep(f, path[i], TempRestore(i - 2), TempRestore(i - 1)).fs,
          tempFile |-> NoPath]
    ELSE applyDeltaSteps(
             Remove(applyDeltaStep(f, path[i], TempRestore(i - 2),
                                   TempRestore(i - 1)).fs,
                    TempRestore(i - 2)),
             path, i + 1)

\* RestoreManager.executeOptimizedRestorationPath
executeOptimizedRestorationPath(f, path) ==
    IF ~convertBaseStep(f, path[1], TempRestore(0)).ok
    THEN [ok |-> FALSE, fs |-> convertBaseStep(f, path[1], TempRestore(0)).fs,
          tempFile |-> NoPath]
    ELSE applyDeltaSteps(convertBaseStep(f, path[1], TempRestore(0)).fs, path, 2)

\* restoreFromOptimizedDeltaChain once the path has been executed; the deferred
\* os.Remove(tempFile) runs whatever extractFilesFromZip returns
extractRestoredZip(executed, filesToRestore) ==
    IF ~executed.ok
    THEN RestoreError("delta_chain", "failed to execute restoration path", executed.fs)
    ELSE [extractFilesFromZip(executed.fs, executed.tempFile, filesToRestore,
                              "delta_chain")
          EXCEPT !.fs = Remove(executed.fs, executed.tempFile)]

\* RestoreManager.restoreFromOptimizedDeltaChain
restoreFromOptimizedDeltaChain(f, targetVersion, filesToRestore) ==
    IF ~findOptimizedRestorationPath(f, targetVersion, <<>>).ok
    THEN RestoreError("delta_chain", "missing restoration data", f)
    ELSE extractRestoredZip(
             executeOptimizedRestorationPath(
                 f, findOptimizedRestorationPath(f, targetVersion, <<>>).path),
             filesToRestore)

\* RestoreManager.tryCacheRestore: the result, not ok when it returns nil
tryCacheRestore(f, c, commit, filesToRestore) ==
    IF fileExists(f, FileName(CacheDir, "v.lz4", commit.Version, 0))
    THEN extractFromLZ4(f, c, FileName(CacheDir, "v.lz4", commit.Version, 0),
                        filesToRestore, "cache")
    ELSE IF fileExists(f, FileName(CacheDir, "v_optimized.zstd", commit.Version, 0))
    THEN extractFromZstd(f, FileName(CacheDir, "v_optimized.zstd", commit.Version, 0),
                         filesToRestore, "cache")
    ELSE RestoreError("cache", "", f)

\* tryVersionRestore standing back whenever an optimized cache file exists
tryVersionRestoreUnlessCached(f, c, commit, filesToRestore) ==
    IF commit.Strategy # "lz4" THEN RestoreError("versions", "", f)
    ELSE IF fileExists(f, FileName(CacheDir, "v_optimized.zstd", commit.Version, 0))
    THEN RestoreError("versions", "", f)
    ELSE IF ~fileExists(f, Join(VersionsDir, commit.OutputFile))
    THEN RestoreError("versions", "", f)
    ELSE extractFromLZ4(f, c, Join(VersionsDir, commit.OutputFile), filesToRestore,
                        "versions")

\* tryVersionRestore taking versions/v<N>.lz4 whatever strategy the record names
tryVersionRestoreAnyStrategy(f, c, commit, filesToRestore) ==
    IF ~fileExists(f, FileName(VersionsDir, "v.lz4", commit.Version, 0))
    THEN RestoreError("versions", "", f)
    ELSE extractFromLZ4(f, c, FileName(VersionsDir, "v.lz4", commit.Version, 0),
                        filesToRestore, "versions")

\* RestoreManager.tryVersionRestore: the result, not ok when it returns nil
tryVersionRestore(f, c, commit, filesToRestore) ==
    IF commit.Strategy # "lz4" THEN RestoreError("versions", "", f)
    ELSE IF ~fileExists(f, Join(VersionsDir, commit.OutputFile))
    THEN RestoreError("versions", "", f)
    ELSE extractFromLZ4(f, c, Join(VersionsDir, commit.OutputFile), filesToRestore,
                        "versions")

\* performFastRestore after both direct methods returned nil
restoreByStrategy(f, commit, filesToRestore, version) ==
    IF commit.Strategy = "psd_smart" THEN restoreFromSmartDelta(f, commit, filesToRestore)
    ELSE IF commit.Strategy = "bsdiff"
    THEN restoreFromOptimizedDeltaChain(f, version, filesToRestore)
    ELSE IF commit.Strategy = "zip"
    THEN restoreFromZip(f, commit.OutputFile, filesToRestore)
    ELSE RestoreError("", "no restoration method available", f)

\* RestoreManager.performFastRestore
performFastRestore(f, c, commit, filesToRestore, version) ==
    IF tryVersionRestore(f, c, commit, filesToRestore).ok
    THEN tryVersionRestore(f, c, commit, filesToRestore)
    ELSE IF tryCacheRestore(f, c, commit, filesToRestore).ok
    THEN tryCacheRestore(f, c, commit, filesToRestore)
    ELSE restoreByStrategy(f, commit, filesToRestore, version)

\* RestoreManager.parseCommitReference: "v<N>" or "<N>", -1 for an error
parseCommitReference(commitRef) ==
    IF HasPrefix(commitRef, <<"v">>) /\ ParseInt(Tail(commitRef)) >= 0
    THEN ParseInt(Tail(commitRef))
    ELSE ParseInt(commitRef)

\* the reference performRestore passes on: fmt.Sprintf("v%d", Version)
CommitRef(version) == <<"v">> \o Itoa(version)

\* cache/v<N>_optimized.zstd
optimizedPath(version) == FileName(CacheDir, "v_optimized.zstd", version, 0)

\* what cache/v<N>_optimized.zstd holds: nothing, the re-encoding of the whole of
\* versions/v<N>.lz4, or anything else
OptimizedFile(f, version) ==
    IF ~fileExists(f, optimizedPath(version)) THEN "absent"
    ELSE IF /\ fileExists(f, FileName(VersionsDir, "v.lz4", version, 0))
            /\ LZ4Read(f[FileName(VersionsDir, "v.lz4", version, 0)]).ok
            /\ f[optimizedPath(version)]
                   = ZstdFrame(LZ4Read(f[FileName(VersionsDir, "v.lz4", version, 0)]).bytes)
    THEN "complete"
    ELSE "incomplete"

\* what the latest RestoreFilesFromCommit call did, which commit was in progress
\* and what the optimized cache of the version held when it ran
RestoreOutcome(version, filesToRestore, result) ==
    [called |-> TRUE, version |-> version, filter |-> filesToRestore,
     ok |-> result.ok, err |-> result.err, RestoreMethod |-> result.RestoreMethod,
     written |-> result.written, ErrorFiles |-> result.ErrorFiles,
     SkippedFiles |-> result.SkippedFiles, during |-> committing,
     optimized |-> OptimizedFile(fs, version),
     optimizing |-> version \in DOMAIN optimizer]

\* RestoreFilesFromCommit once performFastRestore has returned result
FinishRestore(version, filesToRestore, result) ==
    /\ fs' = result.fs
    /\ lastRestore' = RestoreOutcome(version, filesToRestore, result)

\* RestoreManager.RestoreFilesFromCommit
RestoreFilesFromCommit(commitHashOrVersion, filesToRestore) ==
    /\ UNCHANGED <<commits, HEAD, MaxDeltaChainLength, lastCommit, staged, faults,
                   pureIn, pureOut, committing, optimizer>>
    /\ IF parseCommitReference(commitHashOrVersion) < 0
       THEN FinishRestore(0, filesToRestore,
                          RestoreError("", "invalid commit reference", fs))
       ELSE IF ~GetCommit(commits, parseCommitReference(commitHashOrVersion)).ok
       THEN FinishRestore(parseCommitReference(commitHashOrVersion), filesToRestore,
                          RestoreError("", "failed to load commit data", fs))
       ELSE \E result \in
                  {performFastRestore(
                       fs, commits,
                       GetCommit(commits,
                                 parseCommitReference(commitHashOrVersion)).commit,
                       filesToRestore, parseCommitReference(commitHashOrVersion))} :
               FinishRestore(parseCommitReference(commitHashOrVersion),
                             filesToRestore, result)

(***************************************************************************)
(* The files a designer stages, and what the environment decides           *)
(***************************************************************************)
PsdData(g) == <<"8BPS", "bg", IF g = 1 THEN "logo" ELSE "text">>

AiData(g) == <<"%AI", IF g = 1 THEN "p1" ELSE "p2">>

Staged(path, data) == StagedFile(path, Len(data), data, TRUE)

\* staged lists of the pipeline: a PSD in two editions, an AI file, two Figma
\* files of one name in two directories, and nothing at all
StagedLists ==
    {l \in { <<Staged(<<"a", ".psd">>, PsdData(1))>>,
             <<Staged(<<"a", ".psd">>, PsdData(2))>>,
             <<Staged(<<"b", ".ai">>, AiData(1))>>,
             <<Staged(<<"n", ".fig">>, <<"f1">>),
               Staged(<<"d", "/", "n", ".fig">>, <<"f2">>)>>,
             <<>> } : Len(l) <= MaxFiles}

Env(io, lz4Size, deltaSize) == [io |-> io, lz4Size |-> lz4Size, deltaSize |-> deltaSize]

\* one CreateCommit call runs in one of these environments: everything works
\* and compresses well, the delta comes out too large to keep, the LZ4
\* container comes out larger than its input, or one system call fails
Environments ==
    {Env("none", 1, 1), Env("none", 1, 4), Env("none", 4, 4),
     Env("record_open", 1, 1), Env("record_write", 1, 1),
     Env("head_open", 1, 1), Env("head_write", 1, 1)}

\* NewCommitManager: MaxDeltaChainLength
DefaultMaxDeltaChainLength == 5

\* no codec call under test
NoCall == [stage |-> "none"]

Init ==
    /\ fs = [n \in {} |-> <<>>]
    /\ commits = [n \in {} |-> PartialRecord]
    /\ HEAD = NoHash
    /\ MaxDeltaChainLength = DefaultMaxDeltaChainLength
    /\ lastCommit = NoCommitYet
    /\ lastRestore = NoRestoreYet
    /\ staged = [n \in {} |-> [files |-> <<>>, success |-> FALSE]]
    /\ faults = 0
    /\ pureIn = <<>>
    /\ pureOut = NoCall
    /\ committing = NotCommitting
    /\ optimizer = NoOptimizer

Commit == \E files \in StagedLists, env \in Environments : CreateCommit(files, env)

\* dgit restore <version> with no file arguments, for a version that has a v<N>.json
Restore ==
    \E version \in DOMAIN commits : RestoreFilesFromCommit(CommitRef(version), <<>>)

\* the commit pipeline, system call failures included
Next == Commit

Spec == Init /\ [][Next]_vars

\* environments in which every system call succeeds
ReliableEnvironments == {env \in Environments : env.io = "none"}

CommitReliably ==
    \E files \in StagedLists, env \in ReliableEnvironments : CreateCommit(files, env)

\* commits and restores of a repository whose system calls all succeed
NextRestore == CommitReliably \/ Restore

SpecRestore == Init /\ [][NextRestore]_vars

(***************************************************************************)
(* The LZ4 container on its own: compressWithLZ4 writes the container of a *)
(* staged list into an empty repository, extractFromLZ4 decodes it          *)
(***************************************************************************)
\* file contents: nothing, one byte, bytes that look like a record header
CodecContents == {<<>>, <<"p">>, <<"q", "NL", "FILE", ":">>}

\* paths: two files of one name in two directories, a name with a colon in it
CodecPaths ==
    {<<"a", ".fig">>, <<"d", "/", "a", ".fig">>, <<"x", ":", "y", ".fig">>,
     <<"b", ".fig">>}

CodecFiles == {Staged(p, d) : p \in CodecPaths, d \in CodecContents}

\* staged lists of up to MaxFiles files with distinct paths
CodecLists ==
    {l \in UNION {[1..n -> CodecFiles] : n \in 1..MaxFiles} :
        \A i, j \in 1..Len(l) : i # j => l[i].Path # l[j].Path}

InitCodec ==
    /\ fs = [n \in {} |-> <<>>]
    /\ commits = [n \in {} |-> PartialRecord]
    /\ HEAD = NoHash
    /\ MaxDeltaChainLength = DefaultMaxDeltaChainLength
    /\ lastCommit = NoCommitYet
    /\ lastRestore = NoRestoreYet
    /\ staged = [n \in {} |-> [files |-> <<>>, success |-> FALSE]]
    /\ faults = 0
    /\ pureIn \in CodecLists
    /\ pureOut = NoCall
    /\ committing = NotCommitting
    /\ optimizer = NoOptimizer

\* compressWithLZ4 has returned encoded for version 1 of pureIn
EncodeResult(encoded) ==
    /\ fs' = encoded.fs
    /\ commits' = IF encoded.ok
                  THEN 1 :> CommitRecord(generateCommitHash(pureIn, 1), 1, pureIn,
                                         NoHash, encoded)
                  ELSE commits
    /\ pureOut' = [stage |-> IF encoded.ok THEN "encoded" ELSE "rejected"]

Encode ==
    /\ pureOut.stage = "none"
    /\ \E encoded \in {compressWithLZ4(fs, pureIn, 1, Env("none", 1, 1))} :
          EncodeResult(encoded)
    /\ UNCHANGED <<HEAD, MaxDeltaChainLength, lastCommit, lastRestore, staged, faults,
                   pureIn, committing, optimizer>>

Decode ==
    /\ pureOut.stage = "encoded"
    /\ \E result \in {extractFromLZ4(fs, commits, Join(VersionsDir, commits[1].OutputFile),
                                     <<>>, "versions")} :
          pureOut' = [stage |-> "decoded", ok |-> result.ok, written |-> result.written,
                      ErrorFiles |-> result.ErrorFiles]
    /\ UNCHANGED <<fs, commits, HEAD, MaxDeltaChainLength, lastCommit, lastRestore,
                   staged, faults, pureIn, committing, optimizer>>

NextCodec == Encode \/ Decode

SpecCodec == InitCodec /\ [][NextCodec]_vars

(***************************************************************************)
(* The smart delta on its own: createSmartDeltaFile writes the delta of a  *)
(* PSD against the layers of an older one, restoreFromSmartDelta and       *)
(* applySmartDelta read it back                                            *)
(***************************************************************************)
\* PSD contents: no layer, two editions, layers named like the delimiters of
\* the delta file
PsdContents ==
    {<<"8BPS">>, PsdData(1), PsdData(2),
     <<"8BPS", "NL", "BINARY_DATA", ":", "NL", "QUOTE">>}

\* paths: a plain one, one in a directory, one that holds the marker bytes
PsdPaths ==
    {<<"a", ".psd">>, <<"d", "/", "a", ".PSD">>,
     <<"x", "NL", "BINARY_DATA", ":", "NL", ".psd">>}

\* (old, new) pairs: the bytes of the base version and the staged file
PsdPairs ==
    {[old |-> o, new |-> StagedFile(p, Len(n), n, r)] :
        o \in PsdContents, p \in PsdPaths, n \in PsdContents, r \in BOOLEAN}

InitDelta ==
    /\ fs = [n \in {} |-> <<>>]
    /\ commits = [n \in {} |-> PartialRecord]
    /\ HEAD = NoHash
    /\ MaxDeltaChainLength = DefaultMaxDeltaChainLength
    /\ lastCommit = NoCommitYet
    /\ lastRestore = NoRestoreYet
    /\ staged = [n \in {} |-> [files |-> <<>>, success |-> FALSE]]
    /\ faults = 0
    /\ pureIn \in PsdPairs
    /\ pureOut = NoCall
    /\ committing = NotCommitting
    /\ optimizer = NoOptimizer

\* createSmartDeltaFile for version 2 from base version 1, fed by the layer
\* comparison createPSDSmartDelta makes
WriteSmartDelta ==
    /\ pureOut.stage = "none"
    /\ \E delta \in {createSmartDeltaFile(
                          pureIn.new,
                          compareLayerVersions(
                              extractPSDLayerInfo(pureIn.old, tempPSDPath(1),
                                                  "now").layers,
                              extractPSDLayerInfo(pureIn.new.data, pureIn.new.Path,
                                                  "staged").layers),
                          1, 2)} :
          pureOut' = [stage |-> IF delta.ok THEN "written" ELSE "failed",
                      bytes |-> delta.bytes]
    /\ UNCHANGED <<fs, commits, HEAD, MaxDeltaChainLength, lastCommit, lastRestore,
                   staged, faults, pureIn, committing, optimizer>>

\* restoreFromSmartDelta and applySmartDelta on the delta file just written
ReadSmartDelta ==
    /\ pureOut.stage = "written"
    /\ \E restored \in {restoreSmartDeltaData(pureOut.bytes,
                                               Split(pureOut.bytes, "NL"), <<>>, fs)},
          applied \in {applySmartDeltaData(pureIn.old, pureOut.bytes,
                                            Split(pureOut.bytes, "NL"))} :
          pureOut' = [stage |-> "read", bytes |-> pureOut.bytes,
                      restoredOk |-> restored.ok, written |-> restored.written,
                      appliedOk |-> applied.ok, applied |-> applied.bytes]
    /\ UNCHANGED <<fs, commits, HEAD, MaxDeltaChainLength, lastCommit, lastRestore,
                   staged, faults, pureIn, committing, optimizer>>

NextDelta == WriteSmartDelta \/ ReadSmartDelta

SpecDelta == InitDelta /\ [][NextDelta]_vars

(***************************************************************************)
(* The delta chain limit: repositories configured with a limit of          *)
(* 0..MaxChainLimit, committing delta-eligible files whose deltas come out *)
(* effective, with every system call succeeding                            *)
(***************************************************************************)
\* the staged lists that createSnapshot does not send to LZ4 at once
DeltaEligibleLists == {l \in StagedLists : l # <<>> /\ ~shouldUseLZ4(l, 2)}

InitChain ==
    /\ fs = [n \in {} |-> <<>>]
    /\ commits = [n \in {} |-> PartialRecord]
    /\ HEAD = NoHash
    /\ MaxDeltaChainLength \in 0..MaxChainLimit
    /\ lastCommit = NoCommitYet
    /\ lastRestore = NoRestoreYet
    /\ staged = [n \in {} |-> [files |-> <<>>, success |-> FALSE]]
    /\ faults = 0
    /\ pureIn = <<>>
    /\ pureOut = NoCall
    /\ committing = NotCommitting
    /\ optimizer = NoOptimizer

CommitEligible ==
    \E files \in DeltaEligibleLists : CreateCommit(files, Env("none", 1, 1))

NextChain == CommitEligible

SpecChain == InitChain /\ [][NextChain]_vars

(***************************************************************************)
(* Strategy selection and the effectiveness thresholds: repositories with  *)
(* a chain limit of 0..MaxChainLimit, committing files on both sides of    *)
(* the 50 MiB threshold and of every design extension, in environments     *)
(* where the encoders' outputs land on both sides of the 0.7 and the 1.2   *)
(* ratio                                                                   *)
(***************************************************************************)
\* ten bytes of a PSD (signature and nine layers) and of any other file
TenBytesPSD == <<"8BPS", "l1", "l2", "l3", "l4", "l5", "l6", "l7", "l8", "l9">>

TenBytes == <<"b0", "b1", "b2", "b3", "b4", "b5", "b6", "b7", "b8", "b9">>

\* staged lists: a PSD, an AI file, a small Figma file, one whose recorded size
\* is exactly SmallFileThreshold, one a byte larger, a PSD with an upper-case
\* extension, and a Figma file staged together with a Sketch file
SelectLists ==
    { <<StagedFile(<<"a", ".psd">>, 10, TenBytesPSD, TRUE)>>,
      <<StagedFile(<<"b", ".ai">>, 10, TenBytes, TRUE)>>,
      <<StagedFile(<<"c", ".fig">>, 10, TenBytes, TRUE)>>,
      <<StagedFile(<<"c", ".fig">>, SmallFileThreshold, TenBytes, TRUE)>>,
      <<StagedFile(<<"c", ".fig">>, SmallFileThreshold + 1, TenBytes, TRUE)>>,
      <<StagedFile(<<"d", ".PSD">>, 10, TenBytesPSD, TRUE)>>,
      <<StagedFile(<<"c", ".fig">>, 10, TenBytes, TRUE),
        StagedFile(<<"s", ".sketch">>, 10, TenBytes, TRUE)>> }

\* the sizes os.Stat reports: an LZ4 container of 12 or 13 bytes for 10 bytes
\* read, a delta of 7 or 8 bytes
SelectEnvironments == {Env("none", 12, 7), Env("none", 12, 8), Env("none", 13, 8)}

InitSelect ==
    /\ fs = [n \in {} |-> <<>>]
    /\ commits = [n \in {} |-> PartialRecord]
    /\ HEAD = NoHash
    /\ MaxDeltaChainLength \in 0..MaxChainLimit
    /\ lastCommit = NoCommitYet
    /\ lastRestore = NoRestoreYet
    /\ staged = [n \in {} |-> [files |-> <<>>, success |-> FALSE]]
    /\ faults = 0
    /\ pureIn = <<>>
    /\ pureOut = NoCall
    /\ committing = NotCommitting
    /\ optimizer = NoOptimizer

CommitSelected ==
    \E files \in SelectLists, env \in SelectEnvironments : CreateCommit(files, env)

NextSelect == CommitSelected

SpecSelect == InitSelect /\ [][NextSelect]_vars

(***************************************************************************)
(* Background optimization, and restores that run while a commit or an     *)
(* optimization is writing                                                 *)
(***************************************************************************)
\* what a writer that is still writing b, or that stopped midway, has put on
\* disk: nothing, the first token, half of b, or all but the last token
Truncations(b) ==
    {SubSeq(b, 1, n) : n \in {0, 1, Len(b) \div 2, Len(b) - 1} \cap (0..(Len(b) - 1))}

\* optimizeToCache moving the snapshot: the source is removed once the cache
\* file is created
optimizeToCacheMoving(f, version, result, created) ==
    IF result.Strategy # "lz4"
    THEN [copying |-> FALSE, fs |-> f]
    ELSE IF ~fileExists(f, Join(VersionsDir, result.OutputFile))
    THEN [copying |-> FALSE, fs |-> f]
    ELSE IF ~created
    THEN [copying |-> FALSE, fs |-> f]
    ELSE [copying |-> TRUE,
          fs |-> Remove(WriteFile(f, optimizedPath(version), <<>>),
                        Join(VersionsDir, result.OutputFile))]

\* optimizeToCache up to os.Create: the file system it leaves, and whether it
\* goes on to copy; created is what os.Create decides
optimizeToCache(f, version, result, created) ==
    IF result.Strategy # "lz4"
    THEN [copying |-> FALSE, fs |-> f]
    ELSE IF ~fileExists(f, Join(VersionsDir, result.OutputFile))
    THEN [copying |-> FALSE, fs |-> f]
    ELSE IF ~created
    THEN [copying |-> FALSE, fs |-> f]
    ELSE [copying |-> TRUE, fs |-> WriteFile(f, optimizedPath(version), <<>>)]

\* the bytes io.Copy(zstdWriter, lz4Reader) has to write for the whole source
optimizedBytes(f, result) ==
    IF fileExists(f, Join(VersionsDir, result.OutputFile))
    THEN ZstdFrame(LZ4Read(f[Join(VersionsDir, result.OutputFile)]).bytes)
    ELSE ZstdFrame(<<>>)

\* optimizeToCache from io.Copy to its return: the whole stream re-encoded, or,
\* when reading the source fails midway, the frame of what was read so far
\* (zstdWriter.Close still ends the frame)
copyToCache(f, version, result, readUpTo) ==
    IF readUpTo < 0
    THEN WriteFile(f, optimizedPath(version), optimizedBytes(f, result))
    ELSE WriteFile(f, optimizedPath(version),
                   ZstdFrame(SubSeq(optimizedBytes(f, result), 2, 1 + readUpTo)))

\* scheduleBackgroundOptimization after its sleep: optimizeToCache opens the
\* source and creates the cache file
BeginOptimize(version) ==
    /\ version \in DOMAIN optimizer
    /\ optimizer[version].stage = "sleeping"
    /\ \E created \in BOOLEAN :
          \E begun \in {optimizeToCache(fs, version,
                                        [Strategy |-> "lz4",
                                         OutputFile |-> optimizer[version].OutputFile],
                                        created)} :
             /\ fs' = begun.fs
             /\ optimizer' = IF begun.copying
                             THEN [optimizer EXCEPT ![version].stage = "copying"]
                             ELSE [n \in DOMAIN optimizer \ {version} |-> optimizer[n]]
    /\ UNCHANGED <<commits, HEAD, MaxDeltaChainLength, lastCommit, lastRestore, staged,
                   faults, pureIn, pureOut, committing>>

\* io.Copy under way: the encoder has flushed more of the frame to the cache file
CopyChunk(version) ==
    /\ version \in DOMAIN optimizer
    /\ optimizer[version].stage = "copying"
    /\ \E part \in Truncations(optimizedBytes(fs, optimizer[version])) :
          /\ Len(part) > Len(fs[optimizedPath(version)])
          /\ fs' = WriteFile(fs, optimizedPath(version), part)
    /\ UNCHANGED <<commits, HEAD, MaxDeltaChainLength, lastCommit, lastRestore, staged,
                   faults, pureIn, pureOut, committing, optimizer>>

\* io.Copy and zstdWriter.Close return, after the whole source or after a read
\* error at some offset of the source
FinishCopy(version) ==
    /\ version \in DOMAIN optimizer
    /\ optimizer[version].stage = "copying"
    /\ \E readUpTo \in {-1, 0, 1} :
          fs' = copyToCache(fs, version, optimizer[version], readUpTo)
    /\ optimizer' = [n \in DOMAIN optimizer \ {version} |-> optimizer[n]]
    /\ UNCHANGED <<commits, HEAD, MaxDeltaChainLength, lastCommit, lastRestore, staged,
                   faults, pureIn, pureOut, committing>>

\* the process exits, or a write to the cache file fails: the goroutine is gone
\* and the cache file stays as it is
StopOptimizer(version) ==
    /\ version \in DOMAIN optimizer
    /\ optimizer' = [n \in DOMAIN optimizer \ {version} |-> optimizer[n]]
    /\ UNCHANGED <<fs, commits, HEAD, MaxDeltaChainLength, lastCommit, lastRestore,
                   staged, faults, pureIn, pureOut, committing>>

\* the file systems CreateCommit passes through while createSnapshot, which will
\* return snap, writes the artifact of version: the delta file partly written,
\* or, when no delta is made or the delta is turned down, versions/v<N>.lz4
\* partly written
ArtifactInProgress(f, files, version, snap) ==
    (IF snap.tried /\ snap.delta.ok
     THEN {WriteFile(f, Join(CacheDir, snap.delta.OutputFile), part) :
              part \in Truncations(snap.delta.fs[Join(CacheDir, snap.delta.OutputFile)])}
     ELSE {})
    \cup
    (IF snap.tried /\ snap.delta.ok /\ DeltaEffective(snap.delta)
     THEN {}
     ELSE {WriteFile(IF snap.tried THEN snap.delta.fs ELSE f,
                     FileName(VersionsDir, "v.lz4", version, 0), part) :
              part \in Truncations(LZ4Frame(StructuredStream(files)))})

\* CreateCommit has validated its input and createSnapshot is writing
BeginCommit(files, env) ==
    /\ ~committing.active
    /\ Len(files) > 0
    /\ GetCurrentVersion(commits) < MaxVersion
    /\ env.io # "none" => faults < MaxFaults
    /\ \E snap \in {createSnapshot(fs, files, GetCurrentVersion(commits) + 1,
                                    GetCurrentVersion(commits),
                                    MaxDeltaChainLength, env)} :
          fs' \in ArtifactInProgress(fs, files, GetCurrentVersion(commits) + 1, snap)
    /\ committing' = [active |-> TRUE, version |-> GetCurrentVersion(commits) + 1,
                      files |-> files, env |-> env]
    /\ UNCHANGED <<commits, HEAD, MaxDeltaChainLength, lastCommit, lastRestore, staged,
                   faults, pureIn, pureOut, optimizer>>

\* StagingArea.getCachePath: the cache entry of a staged file, named by its hash
getCachePath == FileName(CacheDir, "hash", 0, 0)

\* StagingArea.AddFile: cacheFileInTier links or copies the file into the cache
AddFile ==
    /\ ~fileExists(fs, getCachePath)
    /\ fs' = WriteFile(fs, getCachePath, <<"f1">>)
    /\ UNCHANGED <<commits, HEAD, MaxDeltaChainLength, lastCommit, lastRestore, staged,
                   faults, pureIn, pureOut, committing, optimizer>>

\* StagingArea.ClearStaging: the cache entries of the staged files are removed
ClearStaging ==
    /\ fileExists(fs, getCachePath)
    /\ fs' = Remove(fs, getCachePath)
    /\ UNCHANGED <<commits, HEAD, MaxDeltaChainLength, lastCommit, lastRestore, staged,
                   faults, pureIn, pureOut, committing, optimizer>>

\* staged lists of the concurrent runs: a PSD, an AI file and a Figma file
ConcurrentLists ==
    { <<Staged(<<"a", ".psd">>, PsdData(1))>>,
      <<Staged(<<"b", ".ai">>, AiData(1))>>,
      <<Staged(<<"n", ".fig">>, <<"f1">>)>> }

\* everything works, the delta comes out too large to keep, or the write of
\* v<N>.json fails half way
ConcurrentEnvironments ==
    {Env("none", 1, 1), Env("none", 1, 4), Env("record_write", 1, 1)}

StartCommit ==
    /\ GetCurrentVersion(commits) < MaxConcurrentVersion
    /\ \E files \in ConcurrentLists, env \in ConcurrentEnvironments :
          BeginCommit(files, env)

\* the CreateCommit call in progress runs to its return
CompleteCommit ==
    /\ committing.active
    /\ CreateCommit(committing.files, committing.env)

\* dgit restore v<N> for any N, whether or not the version has a v<N>.json
RestoreAny ==
    \E version \in 1..MaxConcurrentVersion :
       RestoreFilesFromCommit(CommitRef(version), <<>>)

Optimize ==
    \E version \in 1..MaxConcurrentVersion :
       BeginOptimize(version) \/ CopyChunk(version) \/ FinishCopy(version)
       \/ StopOptimizer(version)

\* one repository with a committing process whose optimizer goroutines run in
\* the background, and restores and staging started from other processes
NextConcurrent ==
    StartCommit \/ CompleteCommit \/ RestoreAny \/ Optimize \/ AddFile \/ ClearStaging

SpecConcurrent == Init /\ [][NextConcurrent]_vars

\* commits whose system calls all succeed, of every staged list of the pipeline
CommitForCache ==
    /\ GetCurrentVersion(commits) < MaxConcurrentVersion
    /\ CommitReliably

\* a repository whose LZ4 snapshots are re-encoded into the cache
NextOptimized == CommitForCache \/ Optimize

SpecOptimized == Init /\ [][NextOptimized]_vars

(***************************************************************************)
(* Restores with a file filter                                             *)
(***************************************************************************)
\* staged lists: a PSD next to an AI file, two Figma files of one name in two
\* directories, a PSD alone
FilterLists ==
    { <<Staged(<<"a", ".psd">>, PsdData(1)), Staged(<<"b", ".ai">>, AiData(1))>>,
      <<Staged(<<"n", ".fig">>, <<"f1">>), Staged(<<"d", "/", "n", ".fig">>, <<"f2">>)>>,
      <<Staged(<<"a", ".psd">>, PsdData(2))>> }

\* the paths given to dgit restore: a file, a file in a directory, a directory
\* with its separator, an extension, a path that is in no version
Filters ==
    { <<<<"b", ".ai">>>>, <<<<"a", ".psd">>>>, <<<<"d", "/", "n", ".fig">>>>,
      <<<<"d", "/">>>>, <<<<".fig">>>>, <<<<"z", ".png">>>>,
      <<<<"a", ".psd">>, <<"b", ".ai">>>> }

CommitForFilter ==
    \E files \in FilterLists, env \in ReliableEnvironments : CreateCommit(files, env)

\* dgit restore <version> <files...>
RestoreFiltered ==
    \E version \in DOMAIN commits, filesToRestore \in Filters :
       RestoreFilesFromCommit(CommitRef(version), filesToRestore)

NextFilter == CommitForFilter \/ RestoreFiltered

SpecFilter == Init /\ [][NextFilter]_vars

(***************************************************************************)
(* Delta-chain restores whose system calls may fail: the disk fills while  *)
(* the base is converted (convertStreamToZip returns the write error after *)
(* os.Create made the working file) or while the first patch is applied    *)
(***************************************************************************)
ChainFaults == {"none", "base_write", "patch_write"}

\* RestoreManager.executeOptimizedRestorationPath with one failing write
executeOptimizedRestorationPathIn(f, path, fault) ==
    IF fault = "base_write"
    THEN [ok |-> FALSE, fs |-> WriteFile(f, TempRestore(0), <<>>), tempFile |-> NoPath]
    ELSE IF fault = "patch_write" /\ Len(path) >= 2
            /\ convertBaseStep(f, path[1], TempRestore(0)).ok
    THEN [ok |-> FALSE,
          fs |-> WriteFile(convertBaseStep(f, path[1], TempRestore(0)).fs,
                           TempRestore(1), <<>>),
          tempFile |-> NoPath]
    ELSE executeOptimizedRestorationPath(f, path)

\* RestoreManager.restoreFromOptimizedDeltaChain with one failing write
restoreFromOptimizedDeltaChainIn(f, targetVersion, filesToRestore, fault) ==
    IF ~findOptimizedRestorationPath(f, targetVersion, <<>>).ok
    THEN RestoreError("delta_chain", "missing restoration data", f)
    ELSE extractRestoredZip(
             executeOptimizedRestorationPathIn(
                 f, findOptimizedRestorationPath(f, targetVersion, <<>>).path, fault),
             filesToRestore)

\* a PSD in two editions and an AI file, one file to a commit
ChainLists == {l \in StagedLists : Len(l) = 1}

ChainEnvironments == {Env("none", 1, 1), Env("record_open", 1, 1)}

CommitForChain ==
    \E files \in ChainLists, env \in ChainEnvironments : CreateCommit(files, env)

\* dgit restore <version> of a version recorded as bsdiff that has neither
\* versions/v<N>.lz4 nor a cache file: performFastRestore takes the delta chain
RestoreChain ==
    /\ \E version \in DOMAIN commits, fault \in ChainFaults :
          /\ GetCommit(commits, version).ok
          /\ commits[version].Strategy = "bsdiff"
          /\ ~tryVersionRestore(fs, commits, commits[version], <<>>).ok
          /\ ~tryCacheRestore(fs, commits, commits[version], <<>>).ok
          /\ FinishRestore(version, <<>>,
                           restoreFromOptimizedDeltaChainIn(fs, version, <<>>, fault))
    /\ UNCHANGED <<commits, HEAD, MaxDeltaChainLength, lastCommit, staged, faults,
                   pureIn, pureOut, committing, optimizer>>

NextTemp == CommitForChain \/ RestoreChain

SpecTemp == Init /\ [][NextTemp]_vars

(***************************************************************************)
(* One CreateCommit call step by step: createSnapshot (the delta attempt,  *)
(* then the LZ4 fallback when the delta failed or came out ineffective),   *)
(* saveCommitMetadata, updateHead.  committing holds the position of the   *)
(* call, what createSnapshot computes and the fallbacks taken so far       *)
(***************************************************************************)
Position(pc, version, files, env, snap, fallbacks) ==
    [active |-> TRUE, version |-> version, files |-> files, env |-> env, pc |-> pc,
     snap |-> snap, fallbacks |-> fallbacks]

\* createSnapshot has returned: CreateCommit goes on to saveCommitMetadata or
\* returns "snapshot creation failed"
SnapshotReturned(version, files, env, snap, fallbacks) ==
    /\ fs' = snap.res.fs
    /\ IF snap.res.ok
       THEN /\ committing' = Position("record", version, files, env, snap, fallbacks)
            /\ UNCHANGED lastCommit
       ELSE /\ committing' = NotCommitting
            /\ lastCommit' = Outcome(version, FALSE, "snapshot creation failed", files,
                                     env, snap)

\* CreateCommit up to the first artifact createSnapshot writes
BeginSnapshot(files, env) ==
    /\ ~committing.active
    /\ GetCurrentVersion(commits) < MaxConcurrentVersion
    /\ env.io # "none" => faults < MaxFaults
    /\ faults' = IF env.io # "none" THEN faults + 1 ELSE faults
    /\ lastRestore' = NoRestoreYet
    /\ UNCHANGED <<commits, HEAD, MaxDeltaChainLength, staged, pureIn, pureOut,
                   optimizer>>
    /\ IF Len(files) = 0
       THEN /\ lastCommit' = Outcome(GetCurrentVersion(commits) + 1, FALSE,
                                     "no files staged for commit", files, env,
                                     NoSnapshot)
            /\ UNCHANGED <<fs, committing>>
       ELSE \E snap \in {createSnapshot(fs, files, GetCurrentVersion(commits) + 1,
                                         GetCurrentVersion(commits),
                                         MaxDeltaChainLength, env)} :
               IF snap.tried /\ ~(snap.delta.ok /\ DeltaEffective(snap.delta))
               THEN /\ fs' = snap.delta.fs
                    /\ committing' = Position("fallback",
                                              GetCurrentVersion(commits) + 1, files,
                                              env, snap, 0)
                    /\ UNCHANGED lastCommit
               ELSE SnapshotReturned(GetCurrentVersion(commits) + 1, files, env,
                                     snap, 0)

\* createSnapshot, Strategy 3: the delta is removed and compressWithLZ4 runs
FallbackToLZ4 ==
    /\ committing.active
    /\ committing.pc = "fallback"
    /\ SnapshotReturned(committing.version, committing.files, committing.env,
                        committing.snap, committing.fallbacks + 1)
    /\ UNCHANGED <<commits, HEAD, MaxDeltaChainLength, lastRestore, staged, faults,
                   pureIn, pureOut, optimizer>>

\* CreateCommit: saveCommitMetadata
SaveRecord ==
    /\ committing.active
    /\ committing.pc = "record"
    /\ UNCHANGED <<fs, HEAD, MaxDeltaChainLength, lastRestore, faults, pureIn,
                   pureOut, optimizer>>
    /\ IF committing.env.io = "record_open"
       THEN /\ lastCommit' = Outcome(committing.version, FALSE, "save metadata failed",
                                     committing.files, committing.env, committing.snap)
            /\ committing' = NotCommitting
            /\ UNCHANGED <<commits, staged>>
       ELSE IF committing.env.io = "record_write"
       THEN /\ commits' = (committing.version :> PartialRecord) @@ commits
            /\ lastCommit' = Outcome(committing.version, FALSE, "save metadata failed",
                                     committing.files, committing.env, committing.snap)
            /\ committing' = NotCommitting
            /\ UNCHANGED staged
       ELSE /\ commits' = (committing.version :>
                              CommitRecord(generateCommitHash(committing.files,
                                                              committing.version),
                                           committing.version, committing.files,
                                           getCurrentCommitHash(HEAD),
                                           committing.snap.res))
                          @@ commits
            /\ staged' = (committing.version :>
                             [files |-> committing.files,
                              success |-> committing.env.io
                                          \notin {"head_open", "head_write"}])
                         @@ staged
            /\ committing' = [committing EXCEPT !.pc = "head"]
            /\ UNCHANGED lastCommit

\* updateHead writing HEAD while CreateCommit is at saveCommitMetadata
UpdateHeadEarly ==
    /\ committing.active
    /\ committing.pc = "record"
    /\ HEAD' = generateCommitHash(committing.files, committing.version)
    /\ lastCommit' = Outcome(committing.version, TRUE, "", committing.files,
                             committing.env, committing.snap)
    /\ committing' = NotCommitting
    /\ UNCHANGED <<fs, commits, MaxDeltaChainLength, lastRestore, staged, faults,
                   pureIn, pureOut, optimizer>>

\* CreateCommit: updateHead, and what follows it up to the return
UpdateHead ==
    /\ committing.active
    /\ committing.pc = "head"
    /\ committing' = NotCommitting
    /\ UNCHANGED <<fs, commits, MaxDeltaChainLength, lastRestore, staged, faults,
                   pureIn, pureOut>>
    /\ IF committing.env.io = "head_open"
       THEN /\ lastCommit' = Outcome(committing.version, FALSE, "update HEAD failed",
                                     committing.files, committing.env, committing.snap)
            /\ UNCHANGED <<HEAD, optimizer>>
       ELSE IF committing.env.io = "head_write"
       THEN /\ HEAD' = NoHash
            /\ lastCommit' = Outcome(committing.version, FALSE, "update HEAD failed",
                                     committing.files, committing.env, committing.snap)
            /\ UNCHANGED optimizer
       ELSE /\ HEAD' = generateCommitHash(committing.files, committing.version)
            /\ lastCommit' = Outcome(committing.version, TRUE, "", committing.files,
                                     committing.env, committing.snap)
            /\ optimizer' = IF enableBackgroundOpt
                               /\ committing.snap.res.Strategy = "lz4"
                            THEN (committing.version :>
                                     [stage |-> "sleeping",
                                      OutputFile |-> committing.snap.res.OutputFile])
                                 @@ optimizer
                            ELSE optimizer

\* one file to a commit, or none
OrderLists == ChainLists \cup {<<>>}

AttemptCommit == \E files \in OrderLists, env \in Environments : BeginSnapshot(files, env)

NextOrder == AttemptCommit \/ FallbackToLZ4 \/ SaveRecord \/ UpdateHead

\* CreateCommit runs to its return once it has been called
SpecOrder ==
    /\ Init
    /\ [][NextOrder]_vars
    /\ WF_vars(FallbackToLZ4)
    /\ WF_vars(SaveRecord)
    /\ WF_vars(UpdateHead)

(***************************************************************************)
(* Smart deltas of a PSD that is edited between dgit add and dgit commit:  *)
(* AddFile records the size it sees, createSmartDeltaFile reads the file   *)
(***************************************************************************)
\* (old, new) pairs whose staged file had the bytes was when it was added and
\* has the bytes now when the commit reads it
DriftPairs ==
    {[old |-> o, new |-> StagedFile(<<"a", ".psd">>, Len(was), now, TRUE)] :
        o \in PsdContents, was \in PsdContents, now \in PsdContents}

InitDrift ==
    /\ fs = [n \in {} |-> <<>>]
    /\ commits = [n \in {} |-> PartialRecord]
    /\ HEAD = NoHash
    /\ MaxDeltaChainLength = DefaultMaxDeltaChainLength
    /\ lastCommit = NoCommitYet
    /\ lastRestore = NoRestoreYet
    /\ staged = [n \in {} |-> [files |-> <<>>, success |-> FALSE]]
    /\ faults = 0
    /\ pureIn \in DriftPairs
    /\ pureOut = NoCall
    /\ committing = NotCommitting
    /\ optimizer = NoOptimizer

SpecDrift == InitDrift /\ [][NextDelta]_vars

(***************************************************************************)
(* The commit hash and the clock.  The clock counts half seconds;          *)
(* time.RFC3339 prints whole seconds                                       *)
(***************************************************************************)
MaxClock == 3

RFC3339(t) == t \div 2

\* the identity of a staged file as generateCommitHash reads it
Identity(path, size, modTime) == [AbsolutePath |-> path, Size |-> size, ModTime |-> modTime]

\* CommitManager.generateCommitHash with the reading of time.Now() it takes:
\* SHA-256 is modelled as injective on what is written to it
generateCommitHashAt(msg, files, ver, now) ==
    [msg |-> msg, ver |-> Itoa(ver), time |-> RFC3339(now),
     files |-> [i \in 1..Len(files) |->
                   [path |-> files[i].AbsolutePath, size |-> files[i].Size,
                    time |-> RFC3339(files[i].ModTime)]]]

HashIdentities ==
    {Identity(<<"a", ".psd">>, 3, 0), Identity(<<"a", ".psd">>, 3, 2),
     Identity(<<"b", ".ai">>, 2, 0)}

\* what GetStagedFiles hands to CreateCommit: one or two files in either order
HashLists ==
    {<<x>> : x \in HashIdentities}
    \cup {l \in {<<x, y>> : x \in HashIdentities, y \in HashIdentities} : l[1] # l[2]}

InitHash ==
    /\ fs = [n \in {} |-> <<>>]
    /\ commits = [n \in {} |-> PartialRecord]
    /\ HEAD = NoHash
    /\ MaxDeltaChainLength = DefaultMaxDeltaChainLength
    /\ lastCommit = NoCommitYet
    /\ lastRestore = NoRestoreYet
    /\ staged = [n \in {} |-> [files |-> <<>>, success |-> FALSE]]
    /\ faults = 0
    /\ pureIn \in [message : {"m1", "m2"}, version : 1..MaxVersion, files : HashLists]
    /\ pureOut = NoCall
    /\ committing = NotCommitting
    /\ optimizer = NoOptimizer

\* CreateCommit from generateCommitHash to the Commit it builds: the clock is
\* read once inside generateCommitHash and again for Commit.Timestamp
HashCommit ==
    /\ pureOut.stage = "none"
    /\ \E now \in 0..MaxClock, later \in 0..MaxClock :
          /\ later >= now
          /\ pureOut' = [stage |-> "hashed",
                         Hash |-> generateCommitHashAt(pureIn.message, pureIn.files,
                                                       pureIn.version, now),
                         Timestamp |-> later]
    /\ UNCHANGED <<fs, commits, HEAD, MaxDeltaChainLength, lastCommit, lastRestore,
                   staged, faults, pureIn, committing, optimizer>>

NextHash == HashCommit

SpecHash == InitHash /\ [][NextHash]_vars

(***************************************************************************)
(* Restores of any version number of a repository whose commits succeed    *)
(***************************************************************************)
\* dgit restore v<N> for N in 1..MaxVersion, committed or not
RestoreVersion ==
    \E version \in 1..MaxVersion : RestoreFilesFromCommit(CommitRef(version), <<>>)

NextMissing == CommitReliably \/ RestoreVersion

SpecMissing == Init /\ [][NextMissing]_vars

(***************************************************************************)
(* Restores of a repository in which a commit attempt may have failed at   *)
(* os.Create of v<N>.json after its LZ4 fallback, and in which the         *)
(* optimizer runs                                                          *)
(***************************************************************************)
PriorityEnvironments == {Env("none", 1, 1), Env("none", 1, 4), Env("record_open", 1, 4)}

CommitForPriority ==
    /\ GetCurrentVersion(commits) < MaxConcurrentVersion
    /\ \E files \in ChainLists, env \in PriorityEnvironments : CreateCommit(files, env)

NextPriority == CommitForPriority \/ RestoreVersion \/ Optimize

SpecPriority == Init /\ [][NextPriority]_vars

(***************************************************************************)
(* The backward walk on its own, over every content of the directories it  *)
(* reads for the versions 1..MaxWalkVersion                                *)
(***************************************************************************)
MaxWalkVersion == 2

\* the file names findOptimizedRestorationPath tests for one version
WalkNames(version) ==
    {FileName(VersionsDir, "v.lz4", version, 0),
     FileName(CacheDir, "v.lz4", version, 0),
     FileName(CacheDir, "v_optimized.zstd", version, 0),
     FileName(ObjectsDir, "v.zip", version, 0),
     FileName(DeltaDir, "v_from_v.bsdiff", version, version - 1),
     FileName(CacheDir, "v_from_v.psd_smart", version, version - 1)}

InitWalk ==
    /\ \E names \in SUBSET (UNION {WalkNames(v) : v \in 1..MaxWalkVersion}) :
          fs = [n \in names |-> <<>>]
    /\ commits = [n \in {} |-> PartialRecord]
    /\ HEAD = NoHash
    /\ MaxDeltaChainLength = DefaultMaxDeltaChainLength
    /\ lastCommit = NoCommitYet
    /\ lastRestore = NoRestoreYet
    /\ staged = [n \in {} |-> [files |-> <<>>, success |-> FALSE]]
    /\ faults = 0
    /\ pureIn \in 0..(MaxWalkVersion + 1)
    /\ pureOut = NoCall
    /\ committing = NotCommitting
    /\ optimizer = NoOptimizer

\* findOptimizedRestorationPath(pureIn) has returned
Walk ==
    /\ pureOut.stage = "none"
    /\ pureOut' = [stage |-> "walked",
                   ok |-> findOptimizedRestorationPath(fs, pureIn, <<>>).ok,
                   path |-> findOptimizedRestorationPath(fs, pureIn, <<>>).path]
    /\ UNCHANGED <<fs, commits, HEAD, MaxDeltaChainLength, lastCommit, lastRestore,
                   staged, faults, pureIn, committing, optimizer>>

NextWalk == Walk

SpecWalk == InitWalk /\ [][NextWalk]_vars

(***************************************************************************)
(* Unfiltered restores of commits that hold a PSD together with another    *)
(* file                                                                    *)
(***************************************************************************)
NextSmart == CommitForFilter \/ Restore

SpecSmart == Init /\ [][NextSmart]_vars

(***************************************************************************)
(* dgit add and dgit commit with the staging index staging/staged.json:    *)
(* the index holds the list of staged files                                *)
(***************************************************************************)
StagingFile == FileName("staging", "staged.json", 0, 0)

\* StagingArea.LoadStaging: no index file is an empty index
LoadStaging(f) == IF fileExists(f, StagingFile) THEN f[StagingFile] ELSE <<>>

\* dgit add of a list of files into an empty index: AddFile caches and
\* SaveStaging writes the index
StageFiles ==
    /\ LoadStaging(fs) = <<>>
    /\ \E files \in ChainLists :
          fs' = WriteFile(WriteFile(fs, getCachePath, <<"f1">>), StagingFile, files)
    /\ UNCHANGED <<commits, HEAD, MaxDeltaChainLength, lastCommit, lastRestore, staged,
                   faults, pureIn, pureOut, committing, optimizer>>

\* StagingArea.ClearStaging on the repository f: the cache entries go and the
\* empty index is saved, unless staged.json cannot be opened for writing
ClearStagingIn(f, stagingIo) ==
    IF stagingIo = "staging_open" THEN Remove(f, getCachePath)
    ELSE WriteFile(Remove(f, getCachePath), StagingFile, <<>>)

\* runCommit: LoadStaging, CreateCommit of the staged files and, when it
\* returned no error, ClearStaging, whose error is only a warning
runCommit(env, stagingIo) ==
    /\ LoadStaging(fs) # <<>>
    /\ GetCurrentVersion(commits) < MaxVersion
    /\ (env.io # "none" \/ stagingIo # "none") => faults < MaxFaults
    /\ env.io # "none" => stagingIo = "none"
    /\ faults' = IF env.io # "none" \/ stagingIo # "none" THEN faults + 1 ELSE faults
    /\ lastRestore' = NoRestoreYet
    /\ committing' = NotCommitting
    /\ UNCHANGED <<MaxDeltaChainLength, pureIn, pureOut>>
    /\ \E snap \in {createSnapshot(fs, LoadStaging(fs), GetCurrentVersion(commits) + 1,
                                    GetCurrentVersion(commits),
                                    MaxDeltaChainLength, env)} :
          CommitSnapshot(LoadStaging(fs), env, GetCurrentVersion(commits) + 1,
                         IF snap.res.ok /\ env.io = "none"
                         THEN [snap EXCEPT
                                  !.res.fs = ClearStagingIn(snap.res.fs, stagingIo)]
                         ELSE snap)

StagingFaults == {"none", "staging_open"}

CommitStaged ==
    \E env \in Environments, stagingIo \in StagingFaults : runCommit(env, stagingIo)

NextStaging == StageFiles \/ CommitStaged

SpecStaging == Init /\ [][NextStaging]_vars

(***************************************************************************)
(* The layer comparison on its own: every pair of layer lists of up to     *)
(* MaxLayers layers, names repeated within a list included                 *)
(***************************************************************************)
MaxLayers == 3

LayerNameSet == {"bg", "logo"}

FingerprintSet == {"h1", "h2"}

\* the layer lists a parse can return: IDs count from 1 in list order
LayerLists ==
    UNION {{[i \in 1..n |-> [ID |-> i, Name |-> nm[i], ContentHash |-> h[i]]] :
               nm \in [1..n -> LayerNameSet], h \in [1..n -> FingerprintSet]} :
           n \in 0..MaxLayers}

InitCompare ==
    /\ fs = [n \in {} |-> <<>>]
    /\ commits = [n \in {} |-> PartialRecord]
    /\ HEAD = NoHash
    /\ MaxDeltaChainLength = DefaultMaxDeltaChainLength
    /\ lastCommit = NoCommitYet
    /\ lastRestore = NoRestoreYet
    /\ staged = [n \in {} |-> [files |-> <<>>, success |-> FALSE]]
    /\ faults = 0
    /\ pureIn \in [old : LayerLists, new : LayerLists]
    /\ pureOut = NoCall
    /\ committing = NotCommitting
    /\ optimizer = NoOptimizer

\* one call of compareLayerVersions(old, new)
CompareLayers ==
    /\ pureOut.stage = "none"
    /\ pureOut' = [stage |-> "compared",
                   analysis |-> compareLayerVersions(pureIn.old, pureIn.new)]
    /\ UNCHANGED <<fs, commits, HEAD, MaxDeltaChainLength, lastCommit, lastRestore,
                   staged, faults, pureIn, committing, optimizer>>

NextCompare == CompareLayers

SpecCompare == InitCompare /\ [][NextCompare]_vars

(***************************************************************************)
(* Layer records of a PSD: the blend mode key, the name and the type tag   *)
(* parseIndividualLayer derives from them. Names are character sequences.  *)
(***************************************************************************)
\* mapBlendMode: the readable name of a 4-character blend mode key
mapBlendMode(blendModeKey) ==
    CASE blendModeKey = "norm" -> "normal"
      [] blendModeKey = "dark" -> "darken"
      [] blendModeKey = "mul " -> "multiply"
      [] blendModeKey = "scrn" -> "screen"
      [] OTHER -> "normal"

\* strings.ToLower on the characters layer names are made of
LowerChar(c) ==
    CASE c = "A" -> "a" [] c = "B" -> "b" [] c = "G" -> "g"
      [] c = "L" -> "l" [] c = "T" -> "t" [] OTHER -> c

ToLowerName(name) == [i \in 1..Len(name) |-> LowerChar(name[i])]

\* determineLayerType
determineLayerType(layerName, blendMode) ==
    LET layerNameLower == ToLowerName(layerName)
    IN IF \/ Contains(layerNameLower, <<"t", "e", "x", "t">>)
          \/ Contains(layerNameLower, <<"t", "x", "t">>)
       THEN "text"
       ELSE IF \/ Contains(layerNameLower, <<"a", "d", "j", "u", "s", "t", "m", "e", "n", "t">>)
               \/ Contains(layerNameLower, <<"a", "d", "j">>)
       THEN "adjustment"
       ELSE IF \/ layerNameLower = <<"b", "a", "c", "k", "g", "r", "o", "u", "n", "d">>
               \/ Contains(layerNameLower, <<"b", "g">>)
       THEN "background"
       ELSE IF blendMode # "normal" THEN "effect"
       ELSE "normal"

\* the name of layer layerIndex when its record carries none
DefaultLayerName(layerIndex) == <<"L", "a", "y", "e", "r", " ">> \o Itoa(layerIndex + 1)

\* parseIndividualLayer: the fields derived from the blend mode key and the
\* name of the record; the type is derived from the key as read
parseIndividualLayer(layerIndex, blendModeKey, extractedName) ==
    LET blendMode == blendModeKey
        readableBlendMode == mapBlendMode(blendMode)
        layerName == IF extractedName # <<>> THEN extractedName
                     ELSE DefaultLayerName(layerIndex)
    IN [ID |-> layerIndex, Name |-> layerName, BlendMode |-> readableBlendMode,
        LayerType |-> determineLayerType(layerName, blendMode)]

\* blend mode keys: mapped ones and one the table does not hold
BlendModeKeys == {"norm", "dark", "mul ", "scrn", "pass"}

\* names stored in layer records; the empty one stands for a record without
\* a name
RecordNames ==
    {<<>>,
     <<"T", "e", "x", "t">>, <<"t", "x", "t", "1">>,
     <<"A", "d", "j">>, <<"a", "d", "j", "u", "s", "t", "m", "e", "n", "t">>,
     <<"B", "a", "c", "k", "g", "r", "o", "u", "n", "d">>, <<"B", "G">>,
     <<"b", "g", "t", "x", "t">>, <<"a", "d", "j", "b", "g">>,
     <<"l", "o", "g", "o">>, <<"t", "e", "x">>, <<"b", "a", "c", "k">>}

MaxLayerIndex == 1

InitLayerType ==
    /\ fs = [n \in {} |-> <<>>]
    /\ commits = [n \in {} |-> PartialRecord]
    /\ HEAD = NoHash
    /\ MaxDeltaChainLength = DefaultMaxDeltaChainLength
    /\ lastCommit = NoCommitYet
    /\ lastRestore = NoRestoreYet
    /\ staged = [n \in {} |-> [files |-> <<>>, success |-> FALSE]]
    /\ faults = 0
    /\ pureIn \in [index : 0..MaxLayerIndex, key : BlendModeKeys, name : RecordNames]
    /\ pureOut = NoCall
    /\ committing = NotCommitting
    /\ optimizer = NoOptimizer

\* one layer record parsed
ParseLayer ==
    /\ pureOut.stage = "none"
    /\ pureOut' = [stage |-> "parsed",
                   layer |-> parseIndividualLayer(pureIn.index, pureIn.key, pureIn.name)]
    /\ UNCHANGED <<fs, commits, HEAD, MaxDeltaChainLength, lastCommit, lastRestore,
                   staged, faults, pureIn, committing, optimizer>>

NextLayerType == ParseLayer

SpecLayerType == InitLayerType /\ [][NextLayerType]_vars

(***************************************************************************)
(* Staged files that can no longer be read when the commit encodes them:   *)
(* removed from the working tree, or made unreadable, after dgit add       *)
(***************************************************************************)
Unreadable(path, data) == StagedFile(path, Len(data), data, FALSE)

\* staged lists with none, one or every file unreadable
UnreadableLists ==
    { <<Staged(<<"b", ".ai">>, AiData(1))>>,
      <<Unreadable(<<"b", ".ai">>, AiData(1))>>,
      <<Staged(<<"b", ".ai">>, AiData(1)), Unreadable(<<"c", ".ai">>, AiData(2))>>,
      <<Unreadable(<<"n", ".fig">>, <<"f1">>), Staged(<<"d", "/", "n", ".fig">>, <<"f2">>)>>,
      <<Staged(<<"n", ".fig">>, <<"f1">>), Staged(<<"d", "/", "n", ".fig">>, <<"f2">>)>> }

CommitUnreadable ==
    \E files \in UnreadableLists, env \in ReliableEnvironments : CreateCommit(files, env)

NextUnreadable == CommitUnreadable

SpecUnreadable == Init /\ [][NextUnreadable]_vars

(***************************************************************************)
(* Commit references: dgit restore <version_or_hash>                       *)
(***************************************************************************)
HexToks == DigitToks \cup {"a", "b", "c", "d", "e", "f", "A", "B", "C", "D", "E", "F"}

\* findTargetCommit: 4 to 64 characters, all of them hexadecimal digits
isHashCandidate(commitRef) ==
    /\ Len(commitRef) >= 4
    /\ Len(commitRef) <= 64
    /\ \A i \in 1..Len(commitRef) : commitRef[i] \in HexToks

\* LogManager.GetCommitByHash: the version of the first v<N>.json, in the order
\* of os.ReadDir, that loads and whose hash begins with hash; 0 when none does
GetCommitByHash(c, hash) ==
    LET hits == {n \in DOMAIN c : c[n].valid /\ HasPrefix(c[n].Hash, hash)}
    IN IF hits = {} THEN 0 ELSE CHOOSE n \in hits : \A m \in hits : n <= m

\* findTargetCommit: the version of the commit it returns, 0 for "not found"
findTargetCommit(c, commitRef) ==
    IF isHashCandidate(commitRef) /\ GetCommitByHash(c, commitRef) # 0
    THEN GetCommitByHash(c, commitRef)
    ELSE IF /\ ParseInt(IF HasPrefix(commitRef, <<"v">>) THEN Tail(commitRef)
                         ELSE commitRef) >= 0
            /\ GetCommit(c, ParseInt(IF HasPrefix(commitRef, <<"v">>)
                                     THEN Tail(commitRef) ELSE commitRef)).ok
    THEN ParseInt(IF HasPrefix(commitRef, <<"v">>) THEN Tail(commitRef) ELSE commitRef)
    ELSE 0

\* 12-digit hashes as generateCommitHash returns them: two that share their
\* first four digits, and one that begins with decimal digits
HashValues ==
    { <<"4", "e", "a", "7", "d", "8", "3", "8", "4", "9", "4", "6">>,
      <<"4", "e", "a", "7", "0", "1", "5", "c", "9", "9", "b", "2">>,
      <<"0", "0", "0", "2", "a", "b", "c", "d", "7", "7", "1", "f">> }

\* what a user types: decimal numbers, v<N>, hash prefixes of 3, 4, 5 and 8
\* digits, one in upper case, and a name that is neither
References ==
    { <<"1">>, <<"2">>, <<"3">>, <<"v", "1">>, <<"v", "2">>, <<"0", "0", "0", "2">>,
      <<"4", "e", "a">>, <<"4", "e", "a", "7">>, <<"4", "e", "a", "7", "d">>,
      <<"4", "E", "A", "7">>, <<"0", "0", "0", "2", "a", "b", "c", "d">>,
      <<"m", "a", "i", "n">> }

\* a repository of one to MaxVersion commits with distinct hashes
InitResolve ==
    /\ fs = [n \in {} |-> <<>>]
    /\ \E n \in 1..MaxVersion :
          \E hashes \in [1..n -> HashValues] :
             /\ \A i, j \in 1..n : hashes[i] = hashes[j] => i = j
             /\ commits = [v \in 1..n |->
                              [PartialRecord EXCEPT !.valid = TRUE, !.Version = v,
                                                    !.Hash = hashes[v],
                                                    !.Strategy = "lz4",
                                                    !.OutputFile = FileName("", "v.lz4",
                                                                            v, 0)]]
    /\ HEAD = NoHash
    /\ MaxDeltaChainLength = DefaultMaxDeltaChainLength
    /\ lastCommit = NoCommitYet
    /\ lastRestore = NoRestoreYet
    /\ staged = [n \in {} |-> [files |-> <<>>, success |-> FALSE]]
    /\ faults = 0
    /\ pureIn = <<>>
    /\ pureOut = NoCall
    /\ committing = NotCommitting
    /\ optimizer = NoOptimizer

\* runRestore up to the commit it has found
FindTarget ==
    /\ \E commitRef \in References :
          pureOut' = [stage |-> "resolved", commitRef |-> commitRef,
                      version |-> findTargetCommit(commits, commitRef)]
    /\ UNCHANGED <<fs, commits, HEAD, MaxDeltaChainLength, lastCommit, lastRestore,
                   staged, faults, pureIn, committing, optimizer>>

NextResolve == FindTarget

SpecResolve == InitResolve /\ [][NextResolve]_vars

(***************************************************************************)
(* Properties of the pipeline                                              *)
(***************************************************************************)
\* the working directory a faithful restore of files leaves
StagedContent(files) ==
    [p \in Paths(files) |-> files[CHOOSE i \in 1..Len(files) : files[i].Path = p].data]

\* a step taken by CreateCommit: it leaves no restore outcome behind
CommitStep == lastCommit'.called /\ ~lastRestore'.called

MaxOf(S) == IF S = {} THEN 0 ELSE CHOOSE n \in S : \A m \in S : n >= m

\* C1: once version V has been committed successfully, restoring V with no
\* file filter succeeds and writes exactly the paths staged for V, each with
\* the bytes it had when it was committed
C1_RestoreYieldsStagedFiles ==
    (/\ lastRestore.called
     /\ lastRestore.filter = <<>>
     /\ lastRestore.version \in DOMAIN staged
     /\ staged[lastRestore.version].success)
    => /\ lastRestore.ok
       /\ lastRestore.written = StagedContent(staged[lastRestore.version].files)

\* C2: the versions that have a v<N>.json are always 1..k for some k, and a
\* successful CreateCommit adds exactly the record max(existing)+1
C2_ConsecutiveVersions ==
    /\ [](DOMAIN commits = 1..MaxOf(DOMAIN commits))
    /\ [][(CommitStep /\ lastCommit'.ok)
           => /\ DOMAIN commits' = DOMAIN commits \cup {MaxOf(DOMAIN commits) + 1}
              /\ lastCommit'.version = MaxOf(DOMAIN commits) + 1
              /\ commits'[lastCommit'.version].valid
              /\ commits'[lastCommit'.version].Version = lastCommit'.version
              /\ \A n \in DOMAIN commits : commits'[n] = commits[n]]_vars

\* a failed attempt left half a record behind and the next commit succeeded
C2_Witness ==
    /\ lastCommit.ok
    /\ lastCommit.version = 2
    /\ ~commits[1].valid

\* C3: when CreateCommit returns an error, the attempted version has no
\* v<N>.json and HEAD holds what it held before the attempt
C3_FailedCommitLeavesNoTrace ==
    [][(CommitStep /\ ~lastCommit'.ok)
       => /\ lastCommit'.version \notin DOMAIN commits'
          /\ HEAD' = HEAD]_vars

\* C4: CreateCommit with no staged files returns the empty-staging error and
\* leaves versions/, cache/, commits/ and HEAD as they were
C4_EmptyStagedSetRejected ==
    [][(CommitStep /\ lastCommit'.nfiles = 0)
       => /\ ~lastCommit'.ok
          /\ lastCommit'.err = "no files staged for commit"
          /\ fs' = fs
          /\ commits' = commits
          /\ HEAD' = HEAD]_vars

\* an empty commit was attempted on a repository that holds a version
C4_Witness ==
    /\ lastCommit.called
    /\ lastCommit.nfiles = 0
    /\ ~lastCommit.ok
    /\ 1 \in DOMAIN commits
    /\ HEAD # NoHash

\* C5: decoding the container compressWithLZ4 produced for a staged list
\* yields one file for each staged file, under its relative path and with its
\* bytes
C5_LZ4ContainerRoundTrip ==
    pureOut.stage = "decoded"
    => /\ pureOut.ok
       /\ pureOut.ErrorFiles = {}
       /\ pureOut.written = StagedContent(pureIn)

IsDelta(strategy) == strategy \in {"bsdiff", "psd_smart"}

\* the versions whose record names a successful commit with the given strategy
CommittedWith(strategy) ==
    {v \in DOMAIN commits :
        /\ commits[v].valid /\ commits[v].Strategy = strategy
        /\ v \in DOMAIN staged /\ staged[v].success}

\* the bytes the commit diffed for V: the opened base artifact against the
\* temporary container of the staged files
CommitDiffBase(v) ==
    openStoredFile(fs, findVersionInStorage(fs, commits[v].BaseVersion)).bytes

\* C6: for a version committed as bsdiff, the restore path ends with the
\* patch file the commit wrote, the base the restore patches is the byte
\* string the commit diffed against, and the restore writes the staged files
C6_BsdiffRoundTrip ==
    \A v \in CommittedWith("bsdiff") :
        /\ fileExists(fs, Join(CacheDir, commits[v].OutputFile))
        /\ findOptimizedRestorationPath(fs, v, <<>>).ok
        /\ \E path \in {findOptimizedRestorationPath(fs, v, <<>>).path} :
              /\ Len(path) = 2
              /\ path[2].File = Join(CacheDir, commits[v].OutputFile)
              /\ convertBaseStep(fs, path[1], TempRestore(0)).fs[TempRestore(0)]
                 = CommitDiffBase(v)
        /\ restoreFromOptimizedDeltaChain(fs, v, <<>>).ok
        /\ restoreFromOptimizedDeltaChain(fs, v, <<>>).written
           = StagedContent(staged[v].files)

\* a version has a full snapshot: one of the artifacts a delta can be built on
HasFullSnapshot(v) ==
    \E n \in DOMAIN fs :
        /\ n.v = v
        /\ \/ n.dir = VersionsDir /\ n.kind = "v.lz4"
           \/ n.dir = CacheDir /\ n.kind \in {"v.lz4", "v_optimized.zstd"}
           \/ n.dir = ObjectsDir /\ n.kind = "v.zip"

\* C10: every record whose strategy is a delta names a base version below
\* its own that has a v<N>.json and a full snapshot, in the state in which the
\* record is written and in every later state
C10_DeltaBaseResolvable ==
    \A v \in DOMAIN commits :
        (commits[v].valid /\ IsDelta(commits[v].Strategy))
        => /\ commits[v].BaseVersion >= 1
           /\ commits[v].BaseVersion < v
           /\ commits[v].BaseVersion \in DOMAIN commits
           /\ HasFullSnapshot(commits[v].BaseVersion)
           /\ findVersionInStorage(fs, commits[v].BaseVersion) # NoPath

\* a delta record is followed by a later version: its base is still there
C10_Witness ==
    /\ 3 \in DOMAIN commits
    /\ commits[2].valid
    /\ IsDelta(commits[2].Strategy)
    /\ commits[2].BaseVersion = 1

\* C7: whenever createSmartDeltaFile succeeded for a pair (old, new),
\* restoreFromSmartDelta writes the path of new with the bytes of new, and
\* applySmartDelta leaves the bytes of new, whatever old and the manifest hold
C7_SmartDeltaYieldsNewPSD ==
    pureOut.stage = "read"
    => /\ pureOut.restoredOk
       /\ pureOut.written = [p \in {pureIn.new.Path} |-> pureIn.new.data]
       /\ pureOut.appliedOk
       /\ pureOut.applied = pureIn.new.data

\* a delta was read back whose path and whose layer names hold the marker
\* bytes, for an old PSD with other layers
C7_Witness ==
    /\ pureOut.stage = "read"
    /\ IndexOfSeq(pureIn.new.Path, BinaryDataMarker) > 0
    /\ IndexOfSeq(pureIn.new.data, BinaryDataMarker) > 0
    /\ pureIn.old = PsdData(1)

\* the deltas to traverse from version v back to its first non-delta
\* ancestor, following the base versions the records name
RECURSIVE DeltaChainOf(_)
DeltaChainOf(v) ==
    IF v \notin DOMAIN commits \/ ~commits[v].valid \/ ~IsDelta(commits[v].Strategy)
    THEN 0
    ELSE 1 + DeltaChainOf(commits[v].BaseVersion)

\* C8: from every version, at most MaxDeltaChainLength deltas lead back to
\* its first non-delta ancestor
C8_DeltaChainBounded ==
    \A v \in DOMAIN commits : DeltaChainOf(v) <= MaxDeltaChainLength

\* the limit let a delta through for version 2 and forced LZ4 for version 3
C8_Witness ==
    /\ MaxDeltaChainLength = 2
    /\ 3 \in DOMAIN commits
    /\ DeltaChainOf(2) = 1
    /\ commits[3].Strategy = "lz4"

\* C9: with MaxDeltaChainLength = 2 and delta-eligible files whose deltas are
\* effective, version 1 is stored as lz4 and versions 2 and 3 as deltas
C9_ChainCountedFromSnapshot ==
    (/\ MaxDeltaChainLength = 2
     /\ 3 \in DOMAIN commits
     /\ \A v \in 1..3 : v \in DOMAIN staged /\ staged[v].success
                         /\ ~shouldUseLZ4(staged[v].files, 2))
    => /\ commits[1].Strategy = "lz4"
       /\ IsDelta(commits[2].Strategy)
       /\ IsDelta(commits[3].Strategy)

\* version resolution for V: the commit side looks for a full snapshot, the
\* restore side walks back from V to one
Resolves(f, V) ==
    \/ findVersionInStorage(f, V) # NoPath
    \/ findOptimizedRestorationPath(f, V, <<>>).ok

\* C11: in every state reached by commit attempts, version resolution finds an
\* artifact for V exactly when commits/v<V>.json exists
C11_ArtifactIffRecord ==
    \A V \in 1..MaxVersion : Resolves(fs, V) <=> V \in DOMAIN commits

\* the staged list of the latest call holds a file larger than 50 MiB or one
\* with the extension .psd, .ai or .sketch in any case
DesignOrLarge(F) ==
    \E i \in 1..Len(F) :
        \/ F[i].Size > 50 * 1024 * 1024
        \/ F[i].Path[Len(F[i].Path)] \in {".psd", ".PSD", ".ai", ".sketch"}

HasPsd(F) == \E i \in 1..Len(F) : F[i].Path[Len(F[i].Path)] \in {".psd", ".PSD"}

\* the latest CreateCommit call got as far as createSnapshot
Selected == lastCommit.called /\ lastCommit.files # <<>>

\* the record of the version the latest call attempted, when it wrote one
RecordedStrategy ==
    IF lastCommit.version \in DOMAIN commits
    THEN commits[lastCommit.version].Strategy ELSE ""

\* the strategy first attempted by the latest call is a delta (tried) of the
\* expected algorithm, or lz4 with nothing else recorded for the version
FirstAttempt(deltaExpected) ==
    /\ lastCommit.tried <=> deltaExpected
    /\ lastCommit.tried =>
          lastCommit.algorithm = IF HasPsd(lastCommit.files) THEN "psd_smart"
                                 ELSE "bsdiff"
    /\ ~lastCommit.tried =>
          /\ lastCommit.algorithm = ""
          /\ RecordedStrategy \in {"", "lz4"}

DeltaWithinRatio ==
    /\ lastCommit.delta.ok
    /\ lastCommit.delta.OriginalSize > 0
    /\ 10 * lastCommit.delta.CompressedSize <= 7 * lastCommit.delta.OriginalSize

\* the latest call ended with an LZ4 snapshot recorded for its version, or with
\* the LZ4 encoder's failure and no record
EndedWithLZ4 ==
    \/ /\ lastCommit.ok
       /\ RecordedStrategy = "lz4"
       /\ fileExists(fs, FileName(VersionsDir, "v.lz4", lastCommit.version, 0))
    \/ /\ ~lastCommit.ok
       /\ lastCommit.err = "snapshot creation failed"
       /\ lastCommit.version \notin DOMAIN commits

C14_RejectedDeltaRemoved ==
    (Selected /\ lastCommit.tried /\ lastCommit.delta.ok /\ ~DeltaWithinRatio) =>
        ~fileExists(fs, Join(CacheDir, lastCommit.delta.OutputFile))

\* the latest call ran the LZ4 encoder: at once, or after a delta that failed
\* or was rejected
RanLZ4 == Selected /\ (lastCommit.tried => ~DeltaWithinRatio)

\* C15: an LZ4 snapshot is accepted when compressed / original <= 1.2, the
\* boundary included; above 1.2 versions/v<N>.lz4 is deleted, the commit fails
\* and no record for N is written
C15_LZ4AcceptedUpToRatio ==
    (RanLZ4 /\ ReadSize(lastCommit.files) > 0 /\ lastCommit.env.lz4Size > 0) =>
        IF 10 * lastCommit.env.lz4Size <= 12 * ReadSize(lastCommit.files)
        THEN /\ lastCommit.ok
             /\ RecordedStrategy = "lz4"
             /\ fileExists(fs, FileName(VersionsDir, "v.lz4", lastCommit.version, 0))
        ELSE /\ ~lastCommit.ok
             /\ lastCommit.err = "snapshot creation failed"
             /\ ~fileExists(fs, FileName(VersionsDir, "v.lz4", lastCommit.version, 0))
             /\ lastCommit.version \notin DOMAIN commits

\* an LZ4 snapshot that lands exactly on 1.2 was accepted
C15_Witness ==
    /\ RanLZ4
    /\ lastCommit.ok
    /\ 10 * lastCommit.env.lz4Size = 12 * ReadSize(lastCommit.files)
    /\ RecordedStrategy = "lz4"

\* the highest version that has a v<N>.json, 0 when there is none
HighestRecord == IF DOMAIN commits = {} THEN 0
                 ELSE CHOOSE n \in DOMAIN commits : \A m \in DOMAIN commits : m <= n

\* C16: between two CreateCommit calls, HEAD holds the hash of the record of
\* the highest version that has a record, and is empty when no version has one
C16_HeadIsHighestRecord ==
    IF HighestRecord = 0 THEN HEAD = NoHash
    ELSE HEAD = commits[HighestRecord].Hash

\* C17: a v<N>.json that has been written is left as it is by every later step:
\* commits that succeed or fail, restores, background optimization and staging
C17_RecordsNeverRewritten ==
    [][\A n \in DOMAIN commits : n \in DOMAIN commits' /\ commits'[n] = commits[n]]_vars

\* version 1 has been optimized in the background, version 2 committed after it
\* and a restore has run since
C17_Witness ==
    /\ 1 \in DOMAIN commits /\ commits[1].valid
    /\ 2 \in DOMAIN commits
    /\ OptimizedFile(fs, 1) = "complete"
    /\ lastRestore.called
    /\ fileExists(fs, getCachePath)

\* the restoration path of version m
PathOf(m) == findOptimizedRestorationPath(fs, m, <<>>).path

\* C18: while the commit of version N has written part of its artifact and not
\* yet its record, a restore of N is turned down for want of the record before
\* any artifact is looked up, and no restoration path of a recorded version
\* leads to an artifact of N
C18_InFlightVersionNotResolved ==
    /\ (/\ lastRestore.called
        /\ lastRestore.during.active
        /\ lastRestore.version = lastRestore.during.version)
       => /\ ~lastRestore.ok
          /\ lastRestore.err = "failed to load commit data"
          /\ lastRestore.RestoreMethod = ""
          /\ lastRestore.written = NoFiles
    /\ committing.active
       => \A m \in DOMAIN commits :
             \A i \in DOMAIN PathOf(m) : PathOf(m)[i].Version # committing.version

\* a restore of the version being committed has run while versions/v<N>.lz4
\* held a truncated frame
C18_Witness ==
    /\ committing.active
    /\ lastRestore.called
    /\ lastRestore.during = committing
    /\ lastRestore.version = committing.version
    /\ fileExists(fs, FileName(VersionsDir, "v.lz4", committing.version, 0))
    /\ ~IsLZ4Frame(fs[FileName(VersionsDir, "v.lz4", committing.version, 0)])

\* C19: a restore that runs while cache/v<N>_optimized.zstd is incomplete,
\* during the optimization or after it stopped midway, restores N from
\* versions/v<N>.lz4, and every base lookup of such an N finds versions/v<N>.lz4
C19_IncompleteCacheNotUsed ==
    /\ (lastRestore.called /\ lastRestore.optimized = "incomplete")
       => lastRestore.ok /\ lastRestore.RestoreMethod = "versions"
    /\ \A v \in 1..MaxVersion :
          OptimizedFile(fs, v) = "incomplete"
          => /\ findVersionInStorage(fs, v) = FileName(VersionsDir, "v.lz4", v, 0)
             /\ PathOf(v) = <<RestorationStep("lz4", FileName(VersionsDir, "v.lz4", v, 0),
                                              v)>>

\* a restore has run while the optimizer of its version was still writing
C19_Witness ==
    /\ lastRestore.called
    /\ lastRestore.optimized = "incomplete"
    /\ lastRestore.optimizing
    /\ lastRestore.RestoreMethod = "versions"

FromPrimary(v) ==
    extractFromLZ4(fs, commits, FileName(VersionsDir, "v.lz4", v, 0), <<>>, "versions")

\* and what it writes from the optimized cache
FromOptimized(v) == extractFromZstd(fs, optimizedPath(v), <<>>, "cache")

\* C21: for every version that has versions/v<N>.lz4 and a completely written
\* cache/v<N>_optimized.zstd, extractFromZstd of the cache file writes the same
\* files with the same bytes as extractFromLZ4 of the snapshot
C21_CacheDecodesAsPrimary ==
    \A v \in DOMAIN commits :
       (commits[v].valid /\ OptimizedFile(fs, v) = "complete")
       => /\ FromOptimized(v).ok = FromPrimary(v).ok
          /\ FromOptimized(v).written = FromPrimary(v).written

\* the four rules by which a requested path selects an entry
SelectedBy(entry, target) ==
    \/ entry = target
    \/ Base(entry) = Base(target)
    \/ (HasSuffix(target, <<"/">>) /\ HasPrefix(entry, target))
    \/ Contains(entry, TrimSlash(target))

\* the entries of a version that a filter requests
Requested(version, filter) ==
    {e \in Paths(staged[version].files) :
        \E i \in 1..Len(filter) : SelectedBy(e, filter[i])}

\* C22: a restore with a non-empty filter that found and decoded the artifact of
\* its version writes exactly the entries of the version that some requested
\* path selects by one of the four rules, and reports every other entry of the
\* version as skipped, whichever extraction path serves the version
C22_FilterSelectsByRules ==
    (lastRestore.called /\ lastRestore.ok /\ lastRestore.filter # <<>>
     /\ lastRestore.version \in DOMAIN staged)
    => /\ DOMAIN lastRestore.written = Requested(lastRestore.version, lastRestore.filter)
       /\ lastRestore.SkippedFiles
             = Paths(staged[lastRestore.version].files)
               \ Requested(lastRestore.version, lastRestore.filter)

\* the versions whose hash begins with a reference of four or more digits
HashMatches(commitRef) ==
    {n \in DOMAIN commits : Len(commitRef) >= 4 /\ HasPrefix(commits[n].Hash, commitRef)}

\* the version a reference stands for: the decimal number N or v<N> of a
\* committed version, else the one commit whose hash it is a prefix of, else 0
Resolution(commitRef) ==
    IF ParseInt(commitRef) \in DOMAIN commits THEN ParseInt(commitRef)
    ELSE IF HasPrefix(commitRef, <<"v">>) /\ ParseInt(Tail(commitRef)) \in DOMAIN commits
    THEN ParseInt(Tail(commitRef))
    ELSE IF Cardinality(HashMatches(commitRef)) = 1
    THEN CHOOSE n \in HashMatches(commitRef) : TRUE
    ELSE 0

\* C23: a reference resolves to version N exactly when it is the decimal
\* number N, the string v<N>, or a prefix of four or more digits of the hash of
\* commit N and of no other commit's hash; an ambiguous prefix resolves to no
\* commit, and a decimal reference is not redirected by a hash it prefixes
C23_ReferenceResolution ==
    pureOut.stage = "resolved" => pureOut.version = Resolution(pureOut.commitRef)

\* C24: once a delta-chain restore has returned, with a result or with an
\* error of any step, no objects/temp_restore_*.zip it created exists
C24_NoTemporaryFileLeft ==
    \A n \in DOMAIN fs : n.kind # "temp_restore.zip"

\* C25: when CreateCommit returns an error, every file the attempt created under
\* versions/ and cache/ is gone: the repository holds no artifact name that it
\* did not hold before the attempt
C25_FailedCommitRemovesArtifacts ==
    [][(CommitStep /\ ~lastCommit'.ok) => DOMAIN fs' \subseteq DOMAIN fs]_vars

\* C27: the hash of a commit is the value generateCommitHash computes from the
\* message, the version, the timestamp stored in the commit record and the
\* file identities in their order
C27_HashOfRecordedTimestamp ==
    pureOut.stage = "hashed"
    => pureOut.Hash = generateCommitHashAt(pureIn.message, pureIn.files,
                                           pureIn.version, pureOut.Timestamp)

\* the version has no v<N>.json that loads
NoRecord(version) == version \notin DOMAIN commits \/ ~commits[version].valid

\* the files performFastRestore looks for when it restores a record
ReachableNames(commit) ==
    {FileName(CacheDir, "v.lz4", commit.Version, 0),
     FileName(CacheDir, "v_optimized.zstd", commit.Version, 0)}
    \cup (IF commit.Strategy = "lz4" THEN {Join(VersionsDir, commit.OutputFile)}
          ELSE IF commit.Strategy = "psd_smart"
          THEN {Join(CacheDir, commit.OutputFile), Join(VersionsDir, commit.OutputFile)}
          ELSE IF commit.Strategy = "bsdiff"
          THEN {FileName(VersionsDir, "v.lz4", commit.Version, 0),
                FileName(ObjectsDir, "v.zip", commit.Version, 0),
                FileName(DeltaDir, "v_from_v.bsdiff", commit.Version,
                         commit.Version - 1),
                FileName(CacheDir, "v_from_v.psd_smart", commit.Version,
                         commit.Version - 1)}
          ELSE IF commit.Strategy = "zip" THEN {Join(ObjectsDir, commit.OutputFile)}
          ELSE {})

\* the record of the version loads and none of the files restore looks for exists
NoReachableArtifact(version) ==
    /\ ~NoRecord(version)
    /\ ReachableNames(commits[version]) \cap DOMAIN fs = {}

\* a RestoreFilesFromCommit call returns in this step
RestoreStep == lastRestore' # lastRestore /\ lastRestore'.called

\* C26: a restore of a version that has no commit record, or whose record has
\* no artifact where restore looks for one, returns an error, writes no file to
\* the working tree and leaves the repository as it was
C26_NothingToRestoreIsAnError ==
    [][(/\ RestoreStep
        /\ \/ NoRecord(lastRestore'.version)
           \/ NoReachableArtifact(lastRestore'.version))
       => /\ ~lastRestore'.ok
          /\ lastRestore'.err # ""
          /\ lastRestore'.written = NoFiles
          /\ fs' = fs]_vars

\* a restore of a version recorded as bsdiff, whose delta lies where restore
\* does not look, has failed
C26_Witness ==
    /\ lastRestore.called
    /\ NoReachableArtifact(lastRestore.version)
    /\ ~lastRestore.ok
    /\ lastRestore.err = "missing restoration data"

\* C28: in every smart delta file the commit has written, original_size of the
\* manifest is the number of bytes that LZ4-decompressing the data after the
\* BINARY_DATA marker gives, whether or not the PSD changed after it was staged
C28_OriginalSizeIsPayloadLength ==
    pureOut.stage \in {"written", "read"}
    => /\ smartDeltaPayload(pureOut.bytes).ok
       /\ JSONGetNumber(smartDeltaManifest(pureOut.bytes, Split(pureOut.bytes, "NL")),
                        "original_size")
          = Len(smartDeltaPayload(pureOut.bytes).bytes)

\* the artifact the record of the attempt in progress will name is on disk,
\* decodes, and was accepted by createSnapshot
FinalArtifactReady ==
    /\ committing.snap.res.ok
    /\ fileExists(fs, Join(IF committing.snap.res.Strategy = "lz4"
                           THEN VersionsDir ELSE CacheDir,
                           committing.snap.res.OutputFile))
    /\ committing.snap.res.Strategy = "lz4"
       => LZ4Read(fs[Join(VersionsDir, committing.snap.res.OutputFile)]).ok
    /\ IsDelta(committing.snap.res.Strategy) => DeltaEffective(committing.snap.delta)

\* C29: within one commit attempt commits/v<N>.json is written only after the
\* final artifact of version N is on disk and accepted, and HEAD is written only
\* after v<N>.json is; the attempt falls back to LZ4 at most once, and it always
\* returns, with success or with an error
C29_CommitOrder ==
    /\ [][/\ commits' # commits
             => /\ committing.active
                /\ FinalArtifactReady
                /\ fs' = fs
                /\ HEAD' = HEAD
          /\ HEAD' # HEAD
             => /\ committing.active
                /\ committing.version \in DOMAIN commits
                /\ commits[committing.version].valid
                /\ commits' = commits
                /\ fs' = fs]_vars
    /\ [](committing.active => committing.fallbacks <= 1)
    /\ [](committing.active => <>(~committing.active /\ lastCommit.called))

\* an attempt whose delta was rejected has fallen back to LZ4, written its
\* record and HEAD, and returned with success
C29_Witness ==
    /\ ~committing.active
    /\ lastCommit.called /\ lastCommit.ok
    /\ lastCommit.tried /\ ~lastCommit.deltaEffective
    /\ commits[lastCommit.version].Strategy = "lz4"
    /\ HEAD = commits[lastCommit.version].Hash

\* the method the order of performFastRestore gives a version whose record
\* loads: versions/ for a record of strategy lz4 whose file exists, else the
\* cache when it holds v<V>.lz4 or v<V>_optimized.zstd, else the method of
\* the strategy the record names
MethodInOrder(version) ==
    IF /\ commits[version].Strategy = "lz4"
       /\ fileExists(fs, Join(VersionsDir, commits[version].OutputFile))
    THEN "versions"
    ELSE IF \/ fileExists(fs, FileName(CacheDir, "v.lz4", version, 0))
            \/ fileExists(fs, FileName(CacheDir, "v_optimized.zstd", version, 0))
    THEN "cache"
    ELSE IF commits[version].Strategy = "psd_smart" THEN "smart_delta"
    ELSE IF commits[version].Strategy = "bsdiff" THEN "delta_chain"
    ELSE IF commits[version].Strategy = "zip" THEN "zip"
    ELSE ""

\* the files held by the records of versions/v<V>.lz4
HeldByVersionsFile(version) ==
    WrittenFrom(StreamRecords(LZ4Read(fs[FileName(VersionsDir, "v.lz4", version,
                                                  0)]).bytes, 1, <<>>))

C32_SmartDeltaKeepsEveryFile ==
    (/\ lastRestore.called
     /\ lastRestore.filter = <<>>
     /\ lastRestore.version \in CommittedWith("psd_smart"))
    => /\ lastRestore.ok
       /\ lastRestore.written = StagedContent(staged[lastRestore.version].files)

\* C33: after a successful commit the staging index is empty, and after a
\* failed commit attempt it holds exactly the entries it held before
C33_StagingAfterCommit ==
    [][LoadStaging(fs) # <<>>
       => IF lastCommit'.ok THEN LoadStaging(fs') = <<>>
          ELSE LoadStaging(fs') = LoadStaging(fs)]_vars

\* the names of the layers of a list that satisfy Test, in list order
NamesWhere(layers, Test(_)) ==
    LET kept == SelectSeq(layers, Test)
    IN [i \in 1..Len(kept) |-> kept[i].Name]

\* the old layer a name is matched with: the map keeps the last one of a name
NameMatched(old, name) ==
    old[CHOOSE j \in 1..Len(old) :
           /\ old[j].Name = name
           /\ \A k \in (j + 1)..Len(old) : old[k].Name # name]

\* C34: compareLayerVersions(old, new) reports as added the new layers whose
\* name no old layer has, as deleted the old layers whose name no new layer
\* has, as modified the new layers whose name an old layer has and whose
\* fingerprint differs from the name-matched old layer; added and modified
\* share no layer, unchanged_count = len(new) - |modified| - |added| is not
\* negative and total_layers = len(new)
C34_LayerComparison ==
    pureOut.stage = "compared" =>
        LET old == pureIn.old
            new == pureIn.new
            r == pureOut.analysis
            InOld(l) == \E j \in 1..Len(old) : old[j].Name = l.Name
            InNew(l) == \E j \in 1..Len(new) : new[j].Name = l.Name
            NotInOld(l) == ~InOld(l)
            NotInNew(l) == ~InNew(l)
            Differs(l) == InOld(l) /\ NameMatched(old, l.Name).ContentHash # l.ContentHash
        IN /\ r.AddedLayers = NamesWhere(new, NotInOld)
           /\ r.DeletedLayers = NamesWhere(old, NotInNew)
           /\ r.ChangedLayers = NamesWhere(new, Differs)
           /\ {i \in 1..Len(new) : NotInOld(new[i])}
                 \cap {i \in 1..Len(new) : Differs(new[i])} = {}
           /\ \A i \in 1..Len(r.AddedLayers), j \in 1..Len(r.ChangedLayers) :
                 r.AddedLayers[i] # r.ChangedLayers[j]
           /\ r.UnchangedCount = Len(new) - Len(r.ChangedLayers) - Len(r.AddedLayers)
           /\ r.UnchangedCount >= 0
           /\ r.TotalLayers = Len(new)

\* a comparison that reports an added, a modified and an unchanged layer, the
\* modified and the unchanged one carrying a name that two old layers carry
\* with different fingerprints
C34_Witness ==
    /\ pureOut.stage = "compared"
    /\ Len(pureOut.analysis.AddedLayers) = 1
    /\ Len(pureOut.analysis.ChangedLayers) = 1
    /\ pureOut.analysis.UnchangedCount = 1
    /\ pureIn.new[1].Name = pureIn.new[2].Name
    /\ Len(pureIn.old) = 2
    /\ pureIn.old[1].Name = pureIn.old[2].Name
    /\ pureIn.old[1].ContentHash # pureIn.old[2].ContentHash

\* C35: the type tag of a parsed layer is text if the lowercased name
\* contains "text" or "txt", else adjustment if it contains "adjustment" or
\* "adj", else background if it equals "background" or contains "bg", else
\* effect if the blend mode of the layer is not normal, else normal; a layer
\* with blend key norm and a name matching no pattern is tagged normal
C35_LayerTypeByNameThenBlendMode ==
    pureOut.stage = "parsed" =>
        LET layer == pureOut.layer
            lower == ToLowerName(layer.Name)
            expected ==
                IF Contains(lower, <<"t", "e", "x", "t">>) \/ Contains(lower, <<"t", "x", "t">>)
                THEN "text"
                ELSE IF Contains(lower, <<"a", "d", "j">>) THEN "adjustment"
                ELSE IF \/ lower = <<"b", "a", "c", "k", "g", "r", "o", "u", "n", "d">>
                        \/ Contains(lower, <<"b", "g">>)
                THEN "background"
                ELSE IF layer.BlendMode # "normal" THEN "effect"
                ELSE "normal"
        IN /\ layer.LayerType = expected
           /\ (pureIn.key = "norm" /\ expected \notin {"text", "adjustment", "background"})
                 => layer.LayerType = "normal"

\* C36: no record whose strategy is a delta names a base version whose own
\* record is a delta: the base has a full snapshot and is not stored as a
\* delta, so that no version is more than one delta away from a snapshot
C36_DeltaBaseIsNeverADelta ==
    \A v \in DOMAIN commits :
        (commits[v].valid /\ IsDelta(commits[v].Strategy))
        => /\ HasFullSnapshot(commits[v].BaseVersion)
           /\ commits[v].BaseVersion \in DOMAIN commits
           /\ ~IsDelta(commits[commits[v].BaseVersion].Strategy)
           /\ DeltaChainOf(v) <= 1

\* C37: the parent hash recorded for version 1 is empty, and the parent hash
\* recorded for a version N > 1 is the hash recorded for version N - 1,
\* wherever both records can be read
C37_ParentIsPreviousRecord ==
    \A v \in DOMAIN commits :
        commits[v].valid
        => IF v = 1 THEN commits[v].ParentHash = NoHash
           ELSE ((v - 1) \in DOMAIN commits /\ commits[v - 1].valid)
                => commits[v].ParentHash = commits[v - 1].Hash

\* the FILE records of the LZ4 snapshot of version v
SnapshotRecords(v) ==
    StreamRecords(LZ4Read(fs[FileName(VersionsDir, "v.lz4", v, 0)]).bytes, 1, <<>>)

\* C38: for every successful commit stored as an LZ4 snapshot, files_count is
\* the number of FILE records of the artifact and the keys of metadata are
\* their paths: no staged file is left out of the artifact of a successful
\* commit
C38_RecordCountsArtifactFiles ==
    \A v \in CommittedWith("lz4") :
        /\ fileExists(fs, FileName(VersionsDir, "v.lz4", v, 0))
        /\ commits[v].FilesCount = Len(SnapshotRecords(v))
        /\ commits[v].Metadata
           = {SnapshotRecords(v)[i].name : i \in 1..Len(SnapshotRecords(v))}
        /\ \A i \in 1..Len(staged[v].files) :
              \E j \in 1..Len(SnapshotRecords(v)) :
                 SnapshotRecords(v)[j].name = staged[v].files[i].Path

\* the PSD a psd_smart commit of version v analysed, and the PSD of the same
\* path in the staged files of its base version
SmartDeltaPSD(v) == staged[v].files[FirstPSD(staged[v].files)]

SmartDeltaBasePSD(v) ==
    LET base == staged[commits[v].BaseVersion].files
    IN base[CHOOSE i \in 1..Len(base) : base[i].Path = SmartDeltaPSD(v).Path]

\* the layer names of a PSD, in layer order
PSDLayerNames(data) == Tail(data)

====
